---- MODULE Spec2Model ----
(***************************************************************************)
(* Model of the map front end of NGIAB_data_preprocess                     *)
(* (map_app/static/js/main.js): the selection dictionary wb_id_dict, the   *)
(* derived layer maps upstream_maps, the layer registry registered_layers, *)
(* the Leaflet map's overlay stack, and the fetches in flight; with the    *)
(* settings store of the control panel (control_panel.values and           *)
(* dom_callbacks) and the subset / forcings / realization form.            *)
(* pass_steps keeps the order of the steps of a synchronization pass;      *)
(* SpecMal adds derived responses with an entry that does not parse, and   *)
(* SpecLive states the fairness of the reactions to responses.             *)
(* SpecToggle switches the toggles of the overlays off and on again, and   *)
(* SpecProfile is the tile-load profiler (static/js/profile_loading.js).   *)
(*                                                                         *)
(* JavaScript runs one handler at a time: every action below is one        *)
(* handler (a DOM event or a promise reaction) run to its end, including   *)
(* the promise continuations that become runnable inside it.               *)
(***************************************************************************)
EXTENDS Bags, FiniteSets, Integers, Sequences, TLC

\* ------------------------------------------------------------------ bounds
\* number of map / VPU clicks the user makes
MaxClicks == 2

\* number of clicks the user makes while upstream retrieval stays off
MaxSelClicks == 3

\* number of clicks the user makes on the page with the settings panel
MaxPanelClicks == 2

\* number of settings the user changes
MaxSettingChanges == 1

\* number of group callbacks registered with the settings store on its own
MaxProbes == 2

\* number of basins the user clicks before using the form
MaxFormClicks == 1

\* number of times the user switches the toggle of a layer
MaxToggleChanges == 2

\* number of tile elements the tile layers create
MaxTiles == 2

\* seconds the page is watched for
MaxTime == 12

\* number of clicks the user makes on the page whose backend answers with
\* malformed entries
MaxMalClicks == 2

\* number of clicks the user makes before the selection is left alone
MaxLiveClicks == 2

\* ------------------------------------------------------- the environment
\* basin ids the backend knows
Basins == {"wb-1", "wb-2"}

\* click coordinates [lat, lng]
Coords == {<<10, 20>>, <<30, 40>>}

\* /handle_map_interaction: the basin the backend finds at a coordinate
ServerBasinAt(lat, lng) == IF lat < 30 THEN "wb-1" ELSE "wb-2"

\* VPU groups drawn on the map (feature.properties.VPU)
Vpus == {"05"}

\* /get_wbids_from_vpu: the dict of wb_id: [lat, lng] of a group
ServerWbidsOfVpu(vpu_code) == [k \in {"wb-2"} |-> <<31, 41>>]

\* ------------------------------------------------------------ JS values
\* null
Null == [kind |-> "null"]

\* {} : an object with no keys
EmptyObj == [k \in {} |-> Null]

\* delete obj[k] for every k of S
Without(obj, S) == [k \in DOMAIN obj \ S |-> obj[k]]

\* obj[k] = v
With(obj, k, v) == [x \in DOMAIN obj \cup {k} |-> IF x = k THEN v ELSE obj[x]]

\* mutation of Merge: the entries of data are left out
Merge_keep(obj, data) == obj

\* for (const [key, value] of Object.entries(data)) obj[key] = value
Merge(obj, data) ==
    [x \in DOMAIN obj \cup DOMAIN data |-> IF x \in DOMAIN data THEN data[x] ELSE obj[x]]

\* the layer object L.geoJSON(...) builds: name is the family it is made for,
\* key the basin of a derived layer, ids the basins of the request it answers,
\* id tells apart the objects built for the same name and key
Layer(name, key, ids, id) ==
    [kind |-> "layer", name |-> name, key |-> key, ids |-> ids, id |-> id]

\* the layer families of populate_upstream, in the order of the array
layernames == <<"merged_geometry", "merged_tolines", "merged_from_nexus", "nexus_circles">>

LayerNameSet == {layernames[i] : i \in 1..Len(layernames)}

\* the bodies the backend answers /get_upstream_geojson_from_wbids with:
\* the family names in the order of Object.entries(data)
DerivedResponses == {layernames}

\* ------------------------------------------------------------- the state
VARIABLES
    wb_id_dict,         \* main.js:4    wb_id -> [lat, lng]
    selected_wb_layer,  \* main.js:5    Null or the primary layer
    upstream_maps,      \* main.js:6    family -> (wb_id -> Null or layer)
    registered_layers,  \* main.js:12   name -> registered handle(s)
    select_wb_toggle,   \* main.js:17
    need_upstream,      \* main.js:24
    vpu_selected,       \* main.js:520  the vpu codes marked active
    vpu_wbids,          \* main.js:521  vpu code -> its fetched dict
    map_layers,         \* the overlays on the Leaflet map, bottom to top
    click_fetches,      \* /handle_map_interaction requests in flight
    primary_fetches,    \* /get_geojson_from_wbids requests in flight
    vpu_fetches,        \* /get_wbids_from_vpu requests in flight
    passes,             \* populate_upstream calls waiting in Promise.all
    clicks,             \* clicks made so far
    click_budget,       \* clicks the user makes at most
    update_calls,       \* calls of update_selected the last handler made
    vpu_requests,       \* vpu code -> /get_wbids_from_vpu requests sent so far
    last_op,            \* the handler that ran last
    click_log,          \* the last two resolved clicks since the last bulk change
    values,             \* part_001:72   control_panel.values: path -> value
    dom_callbacks,      \* part_001:106  control_panel.dom_callbacks: id -> callbacks
    setting_changes,    \* changes of a setting the user has made so far
    setting_budget,     \* changes of a setting the user makes at most
    trace,              \* what the callbacks of the last setting change did
    form,               \* the fields and buttons of the subset / forcings form
    form_requests,      \* /subset, /forcings and /realization requests in flight
    form_log,           \* what the last handler of the form did
    query,              \* the last call made to the settings store directly
    pass_steps,         \* the steps of a synchronization pass the last handler ran, in order
    timingdata,         \* profile_loading.js:6   profile_loader.timingdata
    uuid,               \* profile_loading.js:5   profile_loader.uuid
    tiles,              \* the tile elements of the tile layers: id and loading phase
    now,                \* Date.now(), in seconds since the page was loaded
    profile_log         \* what the last handler of the profiler did

engine_vars == <<selected_wb_layer, upstream_maps, registered_layers, map_layers,
                 primary_fetches, passes, dom_callbacks>>

\* the tile-load profiler and the clock
profiler_vars == <<timingdata, uuid, tiles, now, profile_log>>

\* the settings store, the form and the profiler, which no handler of the
\* map writes (trace is not among them: it is about the last handler, and
\* every handler of the map clears it)
ui_vars == <<values, setting_changes, setting_budget, form, form_requests, form_log, query,
             profiler_vars>>

vars == <<wb_id_dict, selected_wb_layer, upstream_maps, registered_layers,
          select_wb_toggle, need_upstream, vpu_selected, vpu_wbids, map_layers,
          click_fetches, primary_fetches, vpu_fetches, passes,
          clicks, click_budget, update_calls, vpu_requests, last_op, click_log,
          values, dom_callbacks, setting_changes, setting_budget, trace,
          form, form_requests, form_log, query, pass_steps, profiler_vars>>

\* last_op: the handlers whose effect is observed, with the id they were
\* about; any other handler is Other
Op(op, arg) == [op |-> op, arg |-> arg]

Other == Op("other", "")

\* ------------------------------------------------------ the Leaflet map
OnMap(ml, l) == \E i \in 1..Len(ml) : ml[i] = l

\* map.removeLayer(l): a layer that is not on the map is left alone
RemoveLayer(ml, l) == SelectSeq(ml, LAMBDA x : x # l)

\* l.addTo(map): a new overlay is drawn above the ones already there
AddLayer(ml, l) == IF OnMap(ml, l) THEN ml ELSE Append(ml, l)

\* l.bringToFront(): moves the overlay's path to the end of its pane; nothing
\* happens when the overlay is not on the map
BringToFront(ml, l) == IF OnMap(ml, l) THEN Append(RemoveLayer(ml, l), l) ELSE ml

\* position of an overlay in the stack (0 when absent)
ZIndex(ml, l) == IF OnMap(ml, l) THEN CHOOSE i \in 1..Len(ml) : ml[i] = l ELSE 0

\* --------------------------------------------------- the settings store
\* A setting path is a dotted string; it is kept as the sequence of its
\* segments, s.split("."): ".a.b" is <<"", "a", "b">>, "a.b" is <<"a", "b">>,
\* the empty string is <<"">>.  Two strings are equal exactly when their
\* sequences are.

\* control_panel.settings.layers
LayerSettings == {"streetmap", "waterbasins", "boundaries_of_vpus"}

\* control_panel.settings.geometries: the style group of each geometry with
\* its defaults (numbers are kept as the text of the control)
StyleDefaults ==
    [selected_wb_layer |-> [opacity |-> "0.6", color |-> "#eb34d8",
                            fillColor |-> "#e0abff", fillOpacity |-> "0.2"],
     merged_geometry   |-> [opacity |-> "0.6", color |-> "#3388ff",
                            fillColor |-> "#3388ff", fillOpacity |-> "0.2"],
     merged_tolines    |-> [opacity |-> "0.5", color |-> "#FF0000", weight |-> "1"],
     merged_from_nexus |-> [opacity |-> "0.8", color |-> "#00FF00", weight |-> "2"],
     nexus_circles     |-> [opacity |-> "0.8", color |-> "#FFFF00", fillColor |-> "#FFFF00",
                            fillOpacity |-> "0.2", weight |-> "2"]]

Geometries == DOMAIN StyleDefaults

\* the paths of the bool settings
TogglePaths ==
    {<<"", "layers", l, "toggle">> : l \in LayerSettings}
    \cup {<<"", "geometries", g, "toggle">> : g \in Geometries}

\* the paths of the style settings of a geometry
StylePaths(g) == {<<"", "geometries", g, "style", k>> : k \in DOMAIN StyleDefaults[g]}

\* control_panel.init_values(control_panel.settings): one entry per setting
\* that has a type other than group, keyed by its path with a leading dot
init_values ==
    [p \in TogglePaths
           \cup {<<"", "layers", l, "opacity">> : l \in LayerSettings}
           \cup {<<"", "geometries", "nexus_circles", "length">>}
           \cup UNION {StylePaths(g) : g \in Geometries} |->
        IF p \in TogglePaths THEN TRUE
        ELSE IF p[2] = "layers" THEN "1"
        ELSE IF p[4] = "length" THEN "0.25"
        ELSE StyleDefaults[p[3]][p[5]]]

\* s[0] == "."
StartsWithDot(s) == Len(s) >= 2 /\ s[1] = ""

\* the words of the paths of which one is the beginning of another, as
\* <<beginning, word>>
SegPrefixes ==
    {<<"merged", "merged_geometry">>, <<"merged", "merged_tolines">>,
     <<"merged", "merged_from_nexus">>, <<"fill", "fillColor">>, <<"fill", "fillOpacity">>}

\* String.prototype.startsWith on one segment
SegStartsWith(a, b) == a = b \/ b = "" \/ <<b, a>> \in SegPrefixes

\* path.startsWith(key): the strings are compared, so the last segment of
\* key needs only be the beginning of the segment of path at its place
StartsWith(path, key) ==
    /\ Len(key) <= Len(path)
    /\ \A i \in 1..(Len(key) - 1) : path[i] = key[i]
    /\ SegStartsWith(path[Len(key)], key[Len(key)])

\* part_001 lines 419-422: key.split(".") without a leading empty segment
SplitKey(key) == IF key[1] = "" THEN Tail(key) ELSE key

\* part_001 lines 433-454: the object the matching settings are put into,
\* each at the segments that remain after the key; M maps the remaining
\* segments of each matching setting to its value
RECURSIVE Nested(_)
Nested(M) ==
    [h \in {p[1] : p \in DOMAIN M} |->
        IF <<h>> \in DOMAIN M THEN M[<<h>>]
        ELSE Nested([q \in {Tail(p) : p \in {r \in DOMAIN M : r[1] = h}} |-> M[<<h>> \o q]])]

\* mutation of get_setting_value: the leading empty segment of the key is
\* kept
get_setting_value_raw(vals, key) ==
    LET match == {s \in DOMAIN vals :
                     /\ Len(key) < Len(Tail(s))
                     /\ \A i \in 1..Len(key) : key[i] = Tail(s)[i]}
    IN  IF key \in DOMAIN vals
        THEN vals[key]
        ELSE Nested([r \in {SubSeq(Tail(s), Len(key) + 1, Len(Tail(s))) : s \in match} |->
                        vals[<<"">> \o key \o r]])

\* part_001 lines 416-456: control_panel.utility.get_setting_value(key) with
\* no setting_obj.  A key equal to a setting's path gives its value;
\* otherwise the settings whose segments begin with those of the key are
\* collected (a setting with exactly the key's segments adds nothing).
get_setting_value(vals, key) ==
    LET keys == SplitKey(key)
        match == {s \in DOMAIN vals :
                     /\ Len(keys) < Len(Tail(s))
                     /\ \A i \in 1..Len(keys) : keys[i] = Tail(s)[i]}
    IN  IF key \in DOMAIN vals
        THEN vals[key]
        ELSE Nested([r \in {SubSeq(Tail(s), Len(keys) + 1, Len(Tail(s))) : s \in match} |->
                        vals[<<"">> \o keys \o r]])

\* a callback function: fn names the function, layer_name and path are the
\* variables its closure holds
Callback(fn, layer_name, path) == [fn |-> fn, layer_name |-> layer_name, path |-> path]

settings_updated == Callback("settings_updated", "", <<"">>)

updateLegend == Callback("updateLegend", "", <<"">>)

\* part_001 lines 150-157: control_panel.utility.setup_callback
setup_callback(cb, id, callback) ==
    IF id \in DOMAIN cb THEN With(cb, id, Append(cb[id], callback))
    ELSE With(cb, id, <<callback>>)

\* mutation of setup_group_callback: the key is compared segment by segment
setup_group_callback_segments(cb, vals, key, func) ==
    LET key_ == IF ~StartsWithDot(key) THEN <<"">> \o key ELSE key
        hit  == {path \in DOMAIN vals :
                    Len(key_) <= Len(path) /\ SubSeq(path, 1, Len(key_)) = key_}
    IN  [id \in DOMAIN cb \cup hit |->
            IF id \in hit
            THEN IF id \in DOMAIN cb THEN Append(cb[id], func) ELSE <<func>>
            ELSE cb[id]]

\* part_001 lines 562-574: control_panel.utility.setup_group_callback: func
\* is registered on every path of the values that starts with the key, a
\* dot put before a key that has none
setup_group_callback(cb, vals, key, func) ==
    LET key_ == IF ~StartsWithDot(key) THEN <<"">> \o key ELSE key
        hit  == {path \in DOMAIN vals : StartsWith(path, key_)}
    IN  [id \in DOMAIN cb \cup hit |->
            IF id \in hit
            THEN IF id \in DOMAIN cb THEN Append(cb[id], func) ELSE <<func>>
            ELSE cb[id]]

\* mutation of config_POST: the settings are sent to the server
config_POST_on == TRUE

\* part_001 line 542
config_POST == FALSE


\* ---------------------------------------------------- the layer registry
\* an object of per-key handles, as populate_upstream registers it
Keyed(obj) == [kind |-> "object", entries |-> obj]

\* setup_style_update(layer_name, layer_settingpath, layer): on both paths
\* the handle stored for the name becomes layer
setup_style_update(rl, layer_name, layer) == With(rl, layer_name, layer)

\* registered_layers[lname][key] = v
SetRegistered(rl, lname, key, v) ==
    With(rl, lname, Keyed(With(rl[lname].entries, key, v)))

\* the layer objects the program still holds a reference to
Referenced(um, rl, ml, sel) ==
    ({ml[i] : i \in 1..Len(ml)}
     \cup {sel}
     \cup UNION {{um[l][k] : k \in DOMAIN um[l]} : l \in DOMAIN um}
     \cup UNION {IF rl[n].kind = "object"
                 THEN {rl[n].entries[k] : k \in DOMAIN rl[n].entries}
                 ELSE {rl[n]} : n \in DOMAIN rl}) \ {Null}

\* L.geoJSON(...): a new object, distinct from every object still referenced
NewLayer(name, key, ids, um, rl, ml, sel) ==
    LET used == {l.id : l \in {r \in Referenced(um, rl, ml, sel) :
                                 r.name = name /\ r.key = key}}
    IN  Layer(name, key, ids, CHOOSE n \in 1..(Cardinality(used) + 1) :
                                  /\ n \notin used
                                  /\ \A m \in 1..(n - 1) : m \in used)

\* ------------------------------------- the callbacks of setup_style_update
\* line 52: layer_settingpath.split(".").slice(0, -1).join(".") + ".toggle"
TogglePathOf(layer_settingpath) ==
    LET front == SubSeq(layer_settingpath, 1, Len(layer_settingpath) - 1)
    IN  (IF front = <<>> THEN <<"">> ELSE front) \o <<"toggle">>

\* lines 30-34 and 78-83: what setup_style_update does to dom_callbacks: for
\* a name that is registered nothing; for a new name the style callback goes
\* on the settings under layer_settingpath, the toggle callback on toggle_path
setup_style_callbacks(cb, vals, rl, layer_name, layer_settingpath) ==
    IF layer_name \in DOMAIN rl THEN cb
    ELSE setup_callback(
             setup_group_callback(cb, vals, layer_settingpath,
                 Callback("layer_style_callback", layer_name, layer_settingpath)),
             TogglePathOf(layer_settingpath),
             Callback("toggle_callback", layer_name, TogglePathOf(layer_settingpath)))

\* what a run of callbacks has done so far: ml is the map, calls the
\* callbacks invoked, threw whether one threw, restyled the setStyle calls
\* made (layer and style), posts the /config_changed requests sent
Run(ml) == [ml |-> ml, calls |-> <<>>, threw |-> FALSE, restyled |-> {}, posts |-> 0]

\* what is kept of the last setting change: the path, and what the run of
\* its callbacks did
Trace(path, st) ==
    [path |-> path, calls |-> st.calls, threw |-> st.threw,
     restyled |-> st.restyled, posts |-> st.posts]

NoTrace == Trace(<<"">>, Run(<<>>))

\* the non-null values of Object.entries(layer)
Handles(layer) == {layer.entries[k] : k \in DOMAIN layer.entries} \ {Null}

\* lines 35-51: layer_style_callback.  typeof null is "object", and the in
\* operator throws a TypeError on null.
layer_style_callback(vals, rl, st, c) ==
    IF c.layer_name \notin DOMAIN rl THEN st
    ELSE LET selected_style == get_setting_value(vals, c.path)
             layer == rl[c.layer_name]
         IN  IF layer = Null THEN [st EXCEPT !.threw = TRUE]
             ELSE IF layer.kind = "object"
             THEN [st EXCEPT !.restyled =
                      @ \cup {[layer |-> l, style |-> selected_style] : l \in Handles(layer)}]
             ELSE [st EXCEPT !.restyled =
                      @ \cup {[layer |-> layer, style |-> selected_style]}]

\* line 54: the toggle value as a condition: the value of the setting when
\* toggle_path is a setting's path, else an object, which is truthy
ToggleVal(vals, toggle_path) ==
    IF toggle_path \in DOMAIN vals THEN get_setting_value(vals, toggle_path) ELSE TRUE

\* mutation of ToggleHandle: a handle on the map is taken off and one off the
\* map is put on, whatever the toggle says
ToggleHandle_flip(ml, toggle_val, l) ==
    IF OnMap(ml, l) THEN RemoveLayer(ml, l) ELSE AddLayer(ml, l)

\* lines 60-65 and 70-75: one handle is taken off the map when the toggle is
\* off and it is there, put on the map when the toggle is on and it is not
ToggleHandle(ml, toggle_val, l) ==
    IF ~toggle_val /\ OnMap(ml, l) THEN RemoveLayer(ml, l)
    ELSE IF toggle_val /\ ~OnMap(ml, l) THEN AddLayer(ml, l)
    ELSE ml

\* lines 58-67: the entries of a per-key object in turn (the order among the
\* overlays of one family is not observed: the keys are taken in a fixed one)
RECURSIVE ToggleEntries(_, _, _)
ToggleEntries(ml, toggle_val, ls) ==
    IF ls = {} THEN ml
    ELSE LET l == CHOOSE x \in ls : TRUE
         IN  ToggleEntries(ToggleHandle(ml, toggle_val, l), toggle_val, ls \ {l})

\* lines 53-77: toggle_callback.  A null handle throws as in the style
\* callback.  (A name without a handle does not occur: the callback exists
\* only once line 84 is reached; map.addLayer(undefined) would throw.)
toggle_callback(vals, rl, st, c) ==
    LET toggle_val == ToggleVal(vals, c.path)
        layer == rl[c.layer_name]
    IN  IF c.layer_name \notin DOMAIN rl \/ layer = Null THEN [st EXCEPT !.threw = TRUE]
        ELSE IF layer.kind = "object"
        THEN [st EXCEPT !.ml = ToggleEntries(@, toggle_val, Handles(layer))]
        ELSE [st EXCEPT !.ml = ToggleHandle(@, toggle_val, layer)]

\* one callback of dom_callbacks is called
Invoke(vals, rl, st, c) ==
    LET st1 == [st EXCEPT !.calls = Append(@, c)]
    IN  IF c.fn = "layer_style_callback" THEN layer_style_callback(vals, rl, st1, c)
        ELSE IF c.fn = "toggle_callback" THEN toggle_callback(vals, rl, st1, c)
        ELSE IF c.fn = "settings_updated" /\ config_POST THEN [st1 EXCEPT !.posts = @ + 1]
        ELSE st1

\* the forEach of trigger_callback from callback i on: an exception leaves
\* the loop, and the callbacks after it are not called
RECURSIVE ForEachCallback(_, _, _, _, _)
ForEachCallback(cbs, i, vals, rl, st) ==
    IF i > Len(cbs) \/ st.threw THEN st
    ELSE ForEachCallback(cbs, i + 1, vals, rl, Invoke(vals, rl, st, cbs[i]))

\* mutation of trigger_callback: the callbacks of every path are called
trigger_callback_all(cb, id, vals, rl, ml) ==
    LET RECURSIVE Paths(_, _)
        Paths(S, st) == IF S = {} THEN st
                        ELSE LET p == CHOOSE x \in S : TRUE
                             IN  Paths(S \ {p}, ForEachCallback(cb[p], 1, vals, rl, st))
    IN  Paths(DOMAIN cb, Run(ml))

\* part_001 lines 158-165: control_panel.utility.trigger_callback(id)
trigger_callback(cb, id, vals, rl, ml) ==
    IF id \in DOMAIN cb THEN ForEachCallback(cb[id], 1, vals, rl, Run(ml)) ELSE Run(ml)

\* ------------------------------------------------- populate_upstream
\* upstream_maps[v][key] as a condition: undefined and null are falsy
Truthy(um, v, key) == key \in DOMAIN um[v] /\ um[v][key] # Null

\* lines 250-258: every family is registered with a new {}, and a family
\* that upstream_maps does not know yet gets an empty map
PU_Register(um, rl) ==
    [um |-> [l \in DOMAIN um \cup LayerNameSet |->
                IF l \in DOMAIN um THEN um[l] ELSE EmptyObj],
     rl |-> [n \in DOMAIN rl \cup LayerNameSet |->
                IF n \in LayerNameSet THEN Keyed(EmptyObj) ELSE rl[n]]]

\* mutation of PU_Teardown: the entries are deleted, the overlays stay on the
\* map
PU_Teardown_onmap(dict, um, rl, ml) ==
    [um |-> [l \in DOMAIN um |->
                IF l \in LayerNameSet THEN Without(um[l], DOMAIN um[l] \ DOMAIN dict)
                ELSE um[l]],
     rl |-> [n \in DOMAIN rl |->
                IF n \in LayerNameSet
                THEN Keyed(Without(rl[n].entries, DOMAIN um[n] \ DOMAIN dict))
                ELSE rl[n]],
     ml |-> ml]

\* lines 260-271: drop any key that is not in the wb_id_dict: its layer is
\* taken off the map, its entry deleted from the map and from the registry
PU_Teardown(dict, um, rl, ml) ==
    LET stale == UNION {{um[l][k] : k \in DOMAIN um[l] \ DOMAIN dict} : l \in LayerNameSet}
    IN  [um |-> [l \in DOMAIN um |->
                    IF l \in LayerNameSet THEN Without(um[l], DOMAIN um[l] \ DOMAIN dict)
                    ELSE um[l]],
         rl |-> [n \in DOMAIN rl |->
                    IF n \in LayerNameSet
                    THEN Keyed(Without(rl[n].entries, DOMAIN um[n] \ DOMAIN dict))
                    ELSE rl[n]],
         ml |-> SelectSeq(ml, LAMBDA x : x \notin (stale \ {Null}))]

\* mutation of PU_Seed: only the family the fetches are issued from is seeded
PU_Seed_first(dict, um, rl) ==
    [um |-> [l \in DOMAIN um |->
                IF l = layernames[1]
                THEN [k \in DOMAIN um[l] \cup DOMAIN dict |->
                         IF k \in DOMAIN um[l] THEN um[l][k] ELSE Null]
                ELSE um[l]],
     rl |-> rl]

\* lines 272-281: add any key that is in the wb_id_dict but not in the
\* upstream_maps, as null, in the map and in the registry
PU_Seed(dict, um, rl) ==
    [um |-> [l \in DOMAIN um |->
                IF l \in LayerNameSet
                THEN [k \in DOMAIN um[l] \cup DOMAIN dict |->
                         IF k \in DOMAIN um[l] THEN um[l][k] ELSE Null]
                ELSE um[l]],
     rl |-> [n \in DOMAIN rl |->
                IF n \in LayerNameSet
                THEN Keyed([k \in DOMAIN rl[n].entries \cup (DOMAIN dict \ DOMAIN um[n]) |->
                              IF k \in DOMAIN dict \ DOMAIN um[n] THEN Null
                              ELSE rl[n].entries[k]])
                ELSE rl[n]]]

\* mutation of PU_FetchKeys: every tracked key is fetched
PU_FetchKeys_all(um) == DOMAIN um[layernames[1]]

\* line 289-290: the keys a pass fetches: the null entries of the first family
PU_FetchKeys(um) == {k \in DOMAIN um[layernames[1]] : um[layernames[1]][k] = Null}

\* line 294: the body of the derived request of a key: { [key]: value }
DerivedBody(um, key) == [k \in {key} |-> um[layernames[1]][key]]

\* lines 238-324: populate_upstream up to its await.  ret tells how it left:
\* "off" (need_upstream is false), "empty" (some family tracks no key) or
\* "await" (it reached Promise.all with the fetches of keys in flight)
populate_upstream(dict, um, rl, ml, nu) ==
    IF ~nu THEN [um |-> um, rl |-> rl, ml |-> ml, keys |-> {}, ret |-> "off"]
    ELSE LET r == PU_Register(um, rl)
             t == PU_Teardown(dict, r.um, r.rl, ml)
             s == PU_Seed(dict, t.um, t.rl)
         IN  IF \E l \in LayerNameSet : DOMAIN s.um[l] = {}
             THEN [um |-> s.um, rl |-> s.rl, ml |-> t.ml, keys |-> {}, ret |-> "empty"]
             ELSE [um |-> s.um, rl |-> s.rl, ml |-> t.ml,
                   keys |-> PU_FetchKeys(s.um), ret |-> "await"]

\* lines 250-252 on dom_callbacks: setup_style_update for each family from
\* family i on, with the path ".geometries." + lname + ".style"
RECURSIVE PU_Callbacks(_, _, _, _)
PU_Callbacks(cb, vals, rl, i) ==
    IF i > Len(layernames) THEN cb
    ELSE PU_Callbacks(
             setup_style_callbacks(cb, vals, rl, layernames[i],
                                   <<"", "geometries", layernames[i], "style">>),
             vals, rl, i + 1)

\* mutation of BringSelectedToFront: the final raise is left out
BringSelectedToFront_skipped(ml, sel) == ml

\* lines 327-331: after Promise.all, the primary layer is raised
BringSelectedToFront(ml, sel) == IF sel # Null THEN BringToFront(ml, sel) ELSE ml

\* lines 300-307: the old layers of the key are taken off, family by family
\* from family i on; map.removeLayer throws on a family that holds no layer
\* for the key, and the families after it are not reached
RECURSIVE RemoveOld(_, _, _, _, _)
RemoveOld(um, rl, ml, key, i) ==
    IF i > Len(layernames) THEN [rl |-> rl, ml |-> ml, threw |-> FALSE]
    ELSE LET lname == layernames[i]
             rl1 == SetRegistered(rl, lname, key, Null)
         IN  IF ~Truthy(um, lname, key)
             THEN [rl |-> rl1, ml |-> ml, threw |-> TRUE]
             ELSE RemoveOld(um, rl1, RemoveLayer(ml, um[lname][key]), key, i + 1)

\* lines 310-318: one layer per entry of the response is built, put on the
\* map and stored for the key, in the order of the entries
RECURSIVE InstallNew(_, _, _, _, _, _, _)
InstallNew(um, rl, ml, sel, key, data, i) ==
    IF i > Len(data) THEN [um |-> um, rl |-> rl, ml |-> ml]
    ELSE LET name == data[i]
             l == NewLayer(name, key, {key}, um, rl, ml, sel)
         IN  InstallNew(With(um, name, With(um[name], key, l)),
                        SetRegistered(rl, name, key, l),
                        AddLayer(ml, l), sel, key, data, i + 1)

\* mutation of DerivedHandler: the response is dropped
DerivedHandler_none(um, rl, ml, sel, key, data) == [um |-> um, rl |-> rl, ml |-> ml]

\* lines 297-322: the reaction to a /get_upstream_geojson_from_wbids response
DerivedHandler(um, rl, ml, sel, key, data) ==
    LET old == IF \E v \in LayerNameSet : Truthy(um, v, key)
               THEN RemoveOld(um, rl, ml, key, 1)
               ELSE [rl |-> rl, ml |-> ml, threw |-> FALSE]
    IN  IF old.threw THEN [um |-> um, rl |-> old.rl, ml |-> old.ml]
        ELSE InstallNew(um, old.rl, old.ml, sel, key, data, 1)

\* ------------------------------------------------------ update_selected
\* a pass waiting in Promise.all for the derived fetches of the keys awaiting
Pass(keys) == [awaiting |-> keys]

\* lines 233-235 after populate_upstream has returned: the primary handle is
\* registered again (the text of #selected-basins is not modelled)
UpdateSelectedTail(rl, sel) == setup_style_update(rl, "selected_wb_layer", sel)

\* line 234 on dom_callbacks: the path is given without its leading dot
UpdateSelectedTailCallbacks(cb, vals, rl) ==
    setup_style_callbacks(cb, vals, rl, "selected_wb_layer",
                          <<"geometries", "selected_wb_layer", "style">>)

\* the steps update_selected and populate_upstream run from the call to the
\* first suspension, in the order of the code: the primary request (line
\* 203), then in populate_upstream the teardown (260-271), the seed
\* (272-281), the derived requests (289-295) and, when Promise.all has
\* nothing to wait for, the final raise (327-331)
PassSteps(dict, sel, nu, pu) ==
    (IF DOMAIN dict # {} THEN <<"fetch_primary">> ELSE <<>>)
    \o (IF nu THEN <<"teardown", "seed">> ELSE <<>>)
    \o (IF pu.ret = "await" /\ pu.keys # {} THEN <<"fetch_derived">> ELSE <<>>)
    \o (IF pu.ret = "await" /\ pu.keys = {} /\ sel # Null THEN <<"bringToFront">> ELSE <<>>)

\* mutation of UpdateSelected: the primary request is sent only when some key
\* of the selection is still to be fetched
UpdateSelected_lazy(dict) ==
    LET ml0 == IF DOMAIN dict = {} /\ selected_wb_layer # Null
               THEN RemoveLayer(map_layers, selected_wb_layer) ELSE map_layers
        pu  == populate_upstream(dict, upstream_maps, registered_layers, ml0, need_upstream)
        parked == pu.ret = "await" /\ pu.keys # {}
        cb1 == IF need_upstream
               THEN PU_Callbacks(dom_callbacks, values, registered_layers, 1)
               ELSE dom_callbacks
    IN  /\ primary_fetches' = IF DOMAIN dict # {} /\ pu.keys # {}
                              THEN primary_fetches (+) SetToBag({[body |-> dict]})
                              ELSE primary_fetches
        /\ upstream_maps' = pu.um
        /\ passes' = IF parked THEN passes (+) SetToBag({Pass(pu.keys)}) ELSE passes
        /\ map_layers' = IF pu.ret = "await" /\ ~parked
                         THEN BringSelectedToFront(pu.ml, selected_wb_layer) ELSE pu.ml
        /\ registered_layers' = IF parked THEN pu.rl
                                ELSE UpdateSelectedTail(pu.rl, selected_wb_layer)
        /\ dom_callbacks' = IF parked THEN cb1
                            ELSE UpdateSelectedTailCallbacks(cb1, values, pu.rl)
        /\ update_calls' = 1
        /\ pass_steps' = PassSteps(dict, selected_wb_layer, need_upstream, pu)
        /\ UNCHANGED selected_wb_layer

\* lines 198-236: update_selected() from its call to its first suspension.
\* With fetches to await the pass is parked; without, Promise.all is already
\* fulfilled and the rest of both functions runs in the same turn.
UpdateSelected(dict) ==
    LET ml0 == IF DOMAIN dict = {} /\ selected_wb_layer # Null
               THEN RemoveLayer(map_layers, selected_wb_layer) ELSE map_layers
        pu  == populate_upstream(dict, upstream_maps, registered_layers, ml0, need_upstream)
        parked == pu.ret = "await" /\ pu.keys # {}
        cb1 == IF need_upstream
               THEN PU_Callbacks(dom_callbacks, values, registered_layers, 1)
               ELSE dom_callbacks
    IN  /\ primary_fetches' = IF DOMAIN dict # {}
                              THEN primary_fetches (+) SetToBag({[body |-> dict]})
                              ELSE primary_fetches
        /\ upstream_maps' = pu.um
        /\ passes' = IF parked THEN passes (+) SetToBag({Pass(pu.keys)}) ELSE passes
        /\ map_layers' = IF pu.ret = "await" /\ ~parked
                         THEN BringSelectedToFront(pu.ml, selected_wb_layer) ELSE pu.ml
        /\ registered_layers' = IF parked THEN pu.rl
                                ELSE UpdateSelectedTail(pu.rl, selected_wb_layer)
        /\ dom_callbacks' = IF parked THEN cb1
                            ELSE UpdateSelectedTailCallbacks(cb1, values, pu.rl)
        /\ update_calls' = 1
        /\ pass_steps' = PassSteps(dict, selected_wb_layer, need_upstream, pu)
        /\ UNCHANGED selected_wb_layer

\* ----------------------------------------------------------- onMapClick
\* the last two entries of a log
LastTwo(log) == IF Len(log) > 2 THEN SubSeq(log, Len(log) - 1, Len(log)) ELSE log

\* mutation of ToggleSelection: the key is stored whether or not it is there
ToggleSelection_insert(dict, wb_id, lat, lng) == With(dict, wb_id, <<lat, lng>>)

\* mutation of ToggleSelection: a newly selected basin replaces the selection
ToggleSelection_replace(dict, wb_id, lat, lng) ==
    IF wb_id \in DOMAIN dict THEN Without(dict, {wb_id}) ELSE With(EmptyObj, wb_id, <<lat, lng>>)

\* lines 369-374: if the wb_id is already in the dict, remove the key,
\* else store the click's coordinates under it
ToggleSelection(dict, wb_id, lat, lng) ==
    IF wb_id \in DOMAIN dict THEN Without(dict, {wb_id}) ELSE With(dict, wb_id, <<lat, lng>>)

\* lines 348-365: a click on the map sends /handle_map_interaction
onMapClick(lat, lng, mouse_on_legend) ==
    /\ clicks < click_budget
    /\ ~(~select_wb_toggle \/ mouse_on_legend)
    /\ click_fetches' = click_fetches (+) SetToBag({[lat |-> lat, lng |-> lng]})
    /\ clicks' = clicks + 1
    /\ UNCHANGED click_budget
    /\ last_op' = Other
    /\ UNCHANGED ui_vars /\ trace' = NoTrace /\ pass_steps' = <<>>
    /\ UNCHANGED <<wb_id_dict, vpu_selected, vpu_wbids, vpu_fetches, vpu_requests,
                   select_wb_toggle, need_upstream, click_log>>
    /\ update_calls' = 0
    /\ UNCHANGED engine_vars

\* lines 366-377: the response names a wb_id; it is toggled and one
\* synchronization pass is started
ClickResolved(f) ==
    LET wb_id == ServerBasinAt(f.lat, f.lng)
    IN  /\ f \in BagToSet(click_fetches)
        /\ click_fetches' = click_fetches (-) SetToBag({f})
        /\ wb_id_dict' = ToggleSelection(wb_id_dict, wb_id, f.lat, f.lng)
        /\ UpdateSelected(wb_id_dict')
        /\ last_op' = Op("click_ok", wb_id)
        /\ UNCHANGED ui_vars /\ trace' = NoTrace
        /\ click_log' = LastTwo(Append(click_log,
                [id |-> wb_id, before |-> wb_id_dict, at |-> <<f.lat, f.lng>>]))
        /\ UNCHANGED <<vpu_selected, vpu_wbids, vpu_fetches, vpu_requests,
                       select_wb_toggle, need_upstream, clicks, click_budget>>

\* mutation of ClickFailed: the failed request is sent again
ClickFailed_retry(f) ==
    /\ f \in BagToSet(click_fetches)
    /\ click_fetches' = click_fetches
    /\ last_op' = Op("click_fail", "")
    /\ UNCHANGED ui_vars /\ trace' = NoTrace /\ pass_steps' = <<>>
    /\ UNCHANGED <<wb_id_dict, vpu_selected, vpu_wbids, vpu_fetches, vpu_requests,
                   select_wb_toggle, need_upstream, clicks, click_budget, click_log>>
    /\ update_calls' = 0
    /\ UNCHANGED engine_vars

\* lines 378-380: the request failed or its body did not parse: the error is
\* logged
ClickFailed(f) ==
    /\ f \in BagToSet(click_fetches)
    /\ click_fetches' = click_fetches (-) SetToBag({f})
    /\ last_op' = Op("click_fail", "")
    /\ UNCHANGED ui_vars /\ trace' = NoTrace /\ pass_steps' = <<>>
    /\ UNCHANGED <<wb_id_dict, vpu_selected, vpu_wbids, vpu_fetches, vpu_requests,
                   select_wb_toggle, need_upstream, clicks, click_budget, click_log>>
    /\ update_calls' = 0
    /\ UNCHANGED engine_vars

\* --------------------------------------------------- select_wbids_in_vpu
\* mutation of VpuWithdraw: the whole selection is cleared
VpuWithdraw_all(dict, data) == EmptyObj

\* lines 532-534: every key of the group's dict is deleted from wb_id_dict
VpuWithdraw(dict, data) == Without(dict, DOMAIN data)

\* lines 523-537: a click on a group that is marked active
VpuClickActive(vpu_code) ==
    /\ clicks < click_budget
    /\ ~select_wb_toggle
    /\ vpu_code \in vpu_selected
    /\ wb_id_dict' = VpuWithdraw(wb_id_dict, vpu_wbids[vpu_code])
    /\ vpu_selected' = vpu_selected \ {vpu_code}
    /\ clicks' = clicks + 1
    /\ UNCHANGED click_budget
    /\ last_op' = Op("vpu_off", vpu_code)
    /\ UNCHANGED ui_vars /\ trace' = NoTrace /\ pass_steps' = <<>>
    /\ click_log' = <<>>
    /\ UNCHANGED <<vpu_wbids, vpu_fetches, vpu_requests, click_fetches,
                   select_wb_toggle, need_upstream>>
    /\ update_calls' = 0
    /\ UNCHANGED engine_vars

\* lines 523-542: a click on a group that is not marked active sends
\* /get_wbids_from_vpu
VpuClickInactive(vpu_code) ==
    /\ clicks < click_budget
    /\ ~select_wb_toggle
    /\ vpu_code \notin vpu_selected
    /\ vpu_fetches' = vpu_fetches (+) SetToBag({[vpu_code |-> vpu_code]})
    /\ vpu_requests' = [vpu_requests EXCEPT ![vpu_code] = @ + 1]
    /\ clicks' = clicks + 1
    /\ UNCHANGED click_budget
    /\ last_op' = Other
    /\ UNCHANGED ui_vars /\ trace' = NoTrace /\ pass_steps' = <<>>
    /\ UNCHANGED <<wb_id_dict, vpu_selected, vpu_wbids, click_fetches,
                   select_wb_toggle, need_upstream, click_log>>
    /\ update_calls' = 0
    /\ UNCHANGED engine_vars

\* lines 543-553: the group's ids are inserted, the group is cached and
\* marked, and one synchronization pass is started
VpuResolved(f) ==
    LET data == ServerWbidsOfVpu(f.vpu_code)
    IN  /\ f \in BagToSet(vpu_fetches)
        /\ vpu_fetches' = vpu_fetches (-) SetToBag({f})
        /\ wb_id_dict' = Merge(wb_id_dict, data)
        /\ vpu_wbids' = With(vpu_wbids, f.vpu_code, data)
        /\ vpu_selected' = vpu_selected \cup {f.vpu_code}
        /\ UpdateSelected(wb_id_dict')
        /\ last_op' = Op("vpu_on", f.vpu_code)
        /\ UNCHANGED ui_vars /\ trace' = NoTrace
        /\ click_log' = <<>>
        /\ UNCHANGED <<vpu_requests, click_fetches, select_wb_toggle, need_upstream, clicks, click_budget>>

\* lines 554-556
VpuFailed(f) ==
    /\ f \in BagToSet(vpu_fetches)
    /\ vpu_fetches' = vpu_fetches (-) SetToBag({f})
    /\ last_op' = Other
    /\ UNCHANGED ui_vars /\ trace' = NoTrace /\ pass_steps' = <<>>
    /\ UNCHANGED <<wb_id_dict, vpu_selected, vpu_wbids, vpu_requests, click_fetches,
                   select_wb_toggle, need_upstream, clicks, click_budget, click_log>>
    /\ update_calls' = 0
    /\ UNCHANGED engine_vars

\* ------------------------------------------- the primary fetch's reactions
\* lines 209-224: the old primary layer leaves the map, the new one is built
\* from the response, added and registered
PrimaryResolved(f) ==
    LET new == NewLayer("selected_wb_layer", "", DOMAIN f.body, upstream_maps,
                        registered_layers, map_layers, selected_wb_layer)
        ml0 == IF selected_wb_layer # Null
               THEN RemoveLayer(map_layers, selected_wb_layer) ELSE map_layers
    IN  /\ f \in BagToSet(primary_fetches)
        /\ primary_fetches' = primary_fetches (-) SetToBag({f})
        /\ selected_wb_layer' = new
        /\ map_layers' = AddLayer(ml0, new)
        /\ registered_layers' = setup_style_update(registered_layers, "selected_wb_layer", new)
        /\ dom_callbacks' = setup_style_callbacks(dom_callbacks, values, registered_layers,
                                "selected_wb_layer", <<"", "geometries", "selected_wb_layer", "style">>)
        /\ last_op' = Other
        /\ UNCHANGED ui_vars /\ trace' = NoTrace /\ pass_steps' = <<>>
        /\ update_calls' = 0
        /\ UNCHANGED <<wb_id_dict, upstream_maps, passes, vpu_selected,
                       vpu_wbids, vpu_fetches, vpu_requests, click_fetches,
                       select_wb_toggle, need_upstream, clicks, click_budget, click_log>>

\* mutation of PrimaryFailed: the keys of the failed request are deselected
PrimaryFailed_deselect(f) ==
    /\ f \in BagToSet(primary_fetches)
    /\ primary_fetches' = primary_fetches (-) SetToBag({f})
    /\ wb_id_dict' = Without(wb_id_dict, DOMAIN f.body)
    /\ last_op' = Other
    /\ UNCHANGED ui_vars /\ trace' = NoTrace /\ pass_steps' = <<>>
    /\ update_calls' = 0
    /\ UNCHANGED <<selected_wb_layer, upstream_maps, registered_layers,
                   map_layers, passes, dom_callbacks, vpu_selected,
                   vpu_wbids, vpu_fetches, vpu_requests, click_fetches,
                   select_wb_toggle, need_upstream, clicks, click_budget, click_log>>

\* lines 225-227
PrimaryFailed(f) ==
    /\ f \in BagToSet(primary_fetches)
    /\ primary_fetches' = primary_fetches (-) SetToBag({f})
    /\ last_op' = Other
    /\ UNCHANGED ui_vars /\ trace' = NoTrace /\ pass_steps' = <<>>
    /\ update_calls' = 0
    /\ UNCHANGED <<wb_id_dict, selected_wb_layer, upstream_maps, registered_layers,
                   map_layers, passes, dom_callbacks, vpu_selected,
                   vpu_wbids, vpu_fetches, vpu_requests, click_fetches,
                   select_wb_toggle, need_upstream, clicks, click_budget, click_log>>

\* ------------------------------------------- the derived fetch's reactions
\* the derived fetch of key settles in pass p: when it was the last one p
\* waited for, lines 326-331 and update_selected's lines 234-235 follow
DerivedSettled(p, key, um, rl, ml) ==
    LET rest == p.awaiting \ {key}
        done == rest = {}
    IN  /\ passes' = (passes (-) SetToBag({p})) (+)
                     (IF done THEN EmptyBag ELSE SetToBag({Pass(rest)}))
        /\ upstream_maps' = um
        /\ map_layers' = IF done THEN BringSelectedToFront(ml, selected_wb_layer) ELSE ml
        /\ registered_layers' = IF done THEN UpdateSelectedTail(rl, selected_wb_layer) ELSE rl
        /\ dom_callbacks' = IF done THEN UpdateSelectedTailCallbacks(dom_callbacks, values, rl)
                            ELSE dom_callbacks
        /\ update_calls' = 0
        /\ pass_steps' = IF done /\ selected_wb_layer # Null THEN <<"bringToFront">> ELSE <<>>
        /\ UNCHANGED <<wb_id_dict, selected_wb_layer, primary_fetches,
                       vpu_selected, vpu_wbids, vpu_fetches, vpu_requests, click_fetches,
                       select_wb_toggle, need_upstream, clicks, click_budget, click_log>>

\* lines 296-319: the response of the fetch of key arrives with body data
DerivedResolved(p, key, data) ==
    LET h == DerivedHandler(upstream_maps, registered_layers, map_layers,
                            selected_wb_layer, key, data)
    IN  /\ p \in BagToSet(passes)
        /\ key \in p.awaiting
        /\ DerivedSettled(p, key, h.um, h.rl, h.ml)
        /\ last_op' = Op("derived_ok", key)
        /\ UNCHANGED ui_vars /\ trace' = NoTrace

\* lines 310-318 with a response whose entry number bad is not valid JSON:
\* the old layers have been taken off (lines 300-307) and the entries before
\* it installed when JSON.parse throws; the catch of line 320 logs the error
DerivedMalformed(p, key, data, bad) ==
    LET h == DerivedHandler(upstream_maps, registered_layers, map_layers,
                            selected_wb_layer, key, SubSeq(data, 1, bad - 1))
    IN  /\ p \in BagToSet(passes)
        /\ key \in p.awaiting
        /\ DerivedSettled(p, key, h.um, h.rl, h.ml)
        /\ last_op' = Op("derived_bad", key)
        /\ UNCHANGED ui_vars /\ trace' = NoTrace

\* mutation of DerivedFailed: the entries of the key are deleted
DerivedFailed_drop(p, key) ==
    /\ p \in BagToSet(passes)
    /\ key \in p.awaiting
    /\ DerivedSettled(p, key,
                      [l \in DOMAIN upstream_maps |-> Without(upstream_maps[l], {key})],
                      registered_layers, map_layers)
    /\ last_op' = Other
    /\ UNCHANGED ui_vars /\ trace' = NoTrace

\* lines 320-322: the fetch of key failed
DerivedFailed(p, key) ==
    /\ p \in BagToSet(passes)
    /\ key \in p.awaiting
    /\ DerivedSettled(p, key, upstream_maps, registered_layers, map_layers)
    /\ last_op' = Other
    /\ UNCHANGED ui_vars /\ trace' = NoTrace

\* ------------------------------------------------------------- settings
\* lines 18-21: the select-by-VPU checkbox changes
select_by_vpu_callback ==
    /\ select_wb_toggle' = ~select_wb_toggle
    /\ last_op' = Other
    /\ UNCHANGED ui_vars /\ trace' = NoTrace /\ pass_steps' = <<>>
    /\ UNCHANGED <<wb_id_dict, vpu_selected, vpu_wbids, vpu_fetches, vpu_requests,
                   click_fetches, need_upstream, clicks, click_budget, click_log>>
    /\ update_calls' = 0
    /\ UNCHANGED engine_vars

\* lines 25-28: the need-upstream checkbox changes
need_upstream_callback ==
    /\ need_upstream' = ~need_upstream
    /\ last_op' = Other
    /\ UNCHANGED ui_vars /\ trace' = NoTrace /\ pass_steps' = <<>>
    /\ UNCHANGED <<wb_id_dict, vpu_selected, vpu_wbids, vpu_fetches, vpu_requests,
                   click_fetches, select_wb_toggle, clicks, click_budget, click_log>>
    /\ update_calls' = 0
    /\ UNCHANGED engine_vars

\* ------------------------------------------- subset, forcings, realization
\* the two scripts that define the handlers of the form's buttons: the end
\* of main.js, and data_processing.js (kept in guide.sh from line 175 on)
Scripts == {"main.js", "data_processing.js"}

\* the values the user gives a time field
TimeInputs == {"", "2010-01-01T00:00"}

\* the form when the page is loaded: output_path is the text of #output-path,
\* disabled the buttons that are disabled, time_warning the colour set on
\* #time-warning
InitForm(script) ==
    [script |-> script, output_path |-> "", start_time |-> "", end_time |-> "",
     disabled |-> {}, time_warning |-> ""]

\* what a handler of the form did: the alerts it raised, the requests it sent
FormOp(op, alerts, sent) == [op |-> op, alerts |-> alerts, sent |-> sent]

NoFormOp == FormOp("", 0, 0)

\* a request of the form in flight
FormRequest(url, button, body) == [url |-> url, button |-> button, body |-> body]

\* every variable but those of the form
page_vars == <<wb_id_dict, selected_wb_layer, upstream_maps, registered_layers,
               select_wb_toggle, need_upstream, vpu_selected, vpu_wbids, map_layers,
               click_fetches, primary_fetches, vpu_fetches, passes,
               clicks, click_budget, update_calls, vpu_requests, last_op, click_log,
               values, dom_callbacks, setting_changes, setting_budget, trace, query,
               pass_steps, profiler_vars>>

\* the user types into #start-time or #end-time
EditTime(field, value) ==
    /\ form[field] # value
    /\ form' = [form EXCEPT ![field] = value]
    /\ form_log' = NoFormOp
    /\ UNCHANGED <<form_requests, page_vars>>

\* main.js lines 425-465, guide.sh lines 175-236: subset() and
\* subset_to_file(); data_processing.js first asks for a selected basin
Subset(button, url) ==
    /\ button \notin form.disabled
    /\ IF form.script = "data_processing.js" /\ DOMAIN wb_id_dict = {}
       THEN /\ form_log' = FormOp(url, 1, 0)
            /\ UNCHANGED <<form, form_requests>>
       ELSE /\ form' = [form EXCEPT !.disabled = @ \cup {button}]
            /\ form_requests' = form_requests (+) SetToBag({FormRequest(url, button, wb_id_dict)})
            /\ form_log' = FormOp(url, 0, 1)
    /\ UNCHANGED page_vars

subset == Subset("subset-button", "/subset")

subset_to_file ==
    Subset(IF form.script = "main.js" THEN "subset2-button" ELSE "subset-to-file-button",
           "/subset_to_file")

\* mutation of Forcings: the request is sent whatever the fields hold
Forcings_unchecked(button, url) ==
    /\ button \notin form.disabled
    /\ form' = [form EXCEPT !.disabled = @ \cup {button}]
    /\ form_requests' = form_requests (+) SetToBag({FormRequest(url, button,
             [forcing_dir |-> form.output_path, start_time |-> form.start_time,
              end_time |-> form.end_time])})
    /\ form_log' = FormOp(url, 0, 1)
    /\ UNCHANGED page_vars

\* main.js lines 467-518, guide.sh lines 238-298: forcings() and
\* realization().  data_processing.js first returns with an alert when
\* #output-path is empty; then the button is disabled, and with an empty
\* field both scripts raise the alert, turn #time-warning red and return.
Forcings(button, url) ==
    /\ button \notin form.disabled
    /\ IF form.script = "data_processing.js" /\ form.output_path = ""
       THEN /\ form_log' = FormOp(url, 1, 0)
            /\ UNCHANGED <<form, form_requests>>
       ELSE IF form.output_path = "" \/ form.start_time = "" \/ form.end_time = ""
       THEN /\ form' = [form EXCEPT !.disabled = @ \cup {button}, !.time_warning = "red"]
            /\ form_log' = FormOp(url, 1, 0)
            /\ UNCHANGED form_requests
       ELSE /\ form' = [form EXCEPT !.disabled = @ \cup {button}]
            /\ form_requests' = form_requests (+) SetToBag({FormRequest(url, button,
                     [forcing_dir |-> form.output_path, start_time |-> form.start_time,
                      end_time |-> form.end_time])})
            /\ form_log' = FormOp(url, 0, 1)
    /\ UNCHANGED page_vars

forcings == Forcings("forcings-button", "/forcings")

realization == Forcings("realization-button", "/realization")

\* the response of a request of the form: a subset's file name is shown in
\* #output-path; finally the button is enabled again
FormResolved(f) ==
    /\ f \in BagToSet(form_requests)
    /\ form_requests' = form_requests (-) SetToBag({f})
    /\ form' = [form EXCEPT
                   !.output_path = IF f.url \in {"/subset", "/subset_to_file"}
                                   THEN "subset to out.gpkg" ELSE @,
                   !.disabled = @ \ {f.button}]
    /\ form_log' = NoFormOp
    /\ UNCHANGED page_vars

\* mutation of FormFailed: the button stays disabled when the request fails
FormFailed_stuck(f) ==
    /\ f \in BagToSet(form_requests)
    /\ form_requests' = form_requests (-) SetToBag({f})
    /\ form' = form
    /\ form_log' = NoFormOp
    /\ UNCHANGED page_vars

\* the request failed: the error is logged; finally the button is enabled
FormFailed(f) ==
    /\ f \in BagToSet(form_requests)
    /\ form_requests' = form_requests (-) SetToBag({f})
    /\ form' = [form EXCEPT !.disabled = @ \ {f.button}]
    /\ form_log' = NoFormOp
    /\ UNCHANGED page_vars

\* ------------------------------------------------- the setting controls
\* the settings the user changes
ChangedGeometries == {"selected_wb_layer", "merged_geometry"}

\* the values the user gives a colour picker
StyleInputs == {"#ff0000"}

\* the last direct call: its function, its key, what it returned (for
\* setup_group_callback: dom_callbacks before it), and the number of group
\* registrations made so far
Query(op, key, result, n) == [op |-> op, key |-> key, result |-> result, n |-> n]

NoQuery == Query("", <<"">>, EmptyObj, 0)

\* part_001 lines 518-526: the onchange of a control: the value is stored,
\* then the callbacks of the key are triggered
SettingChanged(key, value) ==
    LET vals == [values EXCEPT ![key] = value]
        st   == trigger_callback(dom_callbacks, key, vals, registered_layers, map_layers)
    IN  /\ setting_changes < setting_budget
        /\ key \in DOMAIN values
        /\ value # values[key]
        /\ values' = vals
        /\ map_layers' = st.ml
        /\ trace' = Trace(key, st)
        /\ setting_changes' = setting_changes + 1
        /\ last_op' = Other
        /\ update_calls' = 0
        /\ pass_steps' = <<>>
        /\ UNCHANGED <<wb_id_dict, selected_wb_layer, upstream_maps, registered_layers,
                       select_wb_toggle, need_upstream, vpu_selected, vpu_wbids,
                       click_fetches, primary_fetches, vpu_fetches, passes,
                       clicks, click_budget, vpu_requests, click_log,
                       dom_callbacks, setting_budget, form, form_requests, form_log,
                       profiler_vars>>
        /\ query' = Query("", <<"">>, EmptyObj, query.n)

\* part_001 lines 518-521: a picker, slider or number field changes
setting_func(key, value) == SettingChanged(key, value)

\* part_001 lines 522-526: a checkbox changes to the other state
checkbox_func(key) == SettingChanged(key, ~values[key])

\* --------------------------------------- calls made to the store directly
\* the keys get_setting_value is called with: settings, groups with and
\* without the leading dot, a setting without its dot, the beginning of a
\* word, and keys nothing is stored under
QueryKeys ==
    {<<"", "geometries", "selected_wb_layer", "toggle">>,
     <<"", "geometries", "merged_geometry", "style", "color">>,
     <<"", "geometries", "selected_wb_layer", "style">>,
     <<"geometries", "selected_wb_layer", "style">>,
     <<"", "geometries", "nexus_circles">>,
     <<"geometries", "selected_wb_layer", "toggle">>,
     <<"", "geometries", "merged">>,
     <<"", "select_by_vpu", "toggle">>,
     <<"", "geometries", "merged_geometry", "style", "color", "red">>}

\* the keys setup_group_callback is called with
GroupKeys ==
    {<<"", "geometries", "merged_geometry", "style">>,
     <<"geometries", "selected_wb_layer", "style">>,
     <<"", "geometries", "merged">>,
     <<"", "geometries", "nexus_circles", "style", "fill">>,
     <<"", "layers">>,
     <<"", "select_by_vpu">>}

\* a callback of a caller other than main.js
probe == Callback("probe", "", <<"">>)

\* every variable but dom_callbacks and query
read_vars == <<wb_id_dict, selected_wb_layer, upstream_maps, registered_layers,
               select_wb_toggle, need_upstream, vpu_selected, vpu_wbids, map_layers,
               click_fetches, primary_fetches, vpu_fetches, passes,
               clicks, click_budget, update_calls, vpu_requests, last_op, click_log,
               values, setting_changes, setting_budget, trace,
               form, form_requests, form_log, pass_steps, profiler_vars>>

\* a call of control_panel.utility.get_setting_value(key)
GetSetting(key) ==
    /\ query' = Query("get_setting_value", key, get_setting_value(values, key), query.n)
    /\ UNCHANGED <<dom_callbacks, read_vars>>

\* a call of control_panel.utility.setup_group_callback(key, probe)
SetupGroup(key) ==
    /\ query.n < MaxProbes
    /\ dom_callbacks' = setup_group_callback(dom_callbacks, values, key, probe)
    /\ query' = Query("setup_group_callback", key, dom_callbacks, query.n + 1)
    /\ UNCHANGED read_vars

\* ------------------------------------------------ the tile-load profiler
\* profile_loading.js, whose handlers addLayers binds to the tileloadstart,
\* tileload and tileabort events of a tile layer (main.js lines 870-872).
\* The sums of the load times (intervals, total_time) and the overlay that
\* shows the counts are not modelled.

\* the tile elements
Tiles == 1..MaxTiles

\* the seconds that pass between two events
TimeSteps == {5, 6}

\* profile_loading.js line 134: a start older than this is taken as failed
CleanupSeconds == 10

\* a number as the id attribute of an element holds it: its decimal text
IdText(n) == <<"0", "1", "2", "3", "4", "5", "6", "7", "8", "9">>[n + 1]

\* what the last handler of the profiler did
ProfileOp(op, id, threw) == [op |-> op, id |-> id, threw |-> threw]

\* every variable but those of the profiler
app_vars == <<wb_id_dict, selected_wb_layer, upstream_maps, registered_layers,
              select_wb_toggle, need_upstream, vpu_selected, vpu_wbids, map_layers,
              click_fetches, primary_fetches, vpu_fetches, passes,
              clicks, click_budget, update_calls, vpu_requests, last_op, click_log,
              values, dom_callbacks, setting_changes, setting_budget, trace,
              form, form_requests, form_log, query, pass_steps>>

\* profile_loading.js lines 1-13: the profiler when the script has run; the
\* tile elements are created without an id
InitProfiler ==
    /\ timingdata = [starts |-> EmptyObj, count |-> 0, aborted |-> 0, failed |-> 0,
                     changed |-> FALSE]
    /\ uuid = 0
    /\ tiles = [t \in Tiles |-> [id |-> "", phase |-> "new"]]
    /\ now = 0
    /\ profile_log = ProfileOp("", "", FALSE)

\* lines 95-102: tileloadstart of a tile element: an element without an id
\* gets the next uuid, and the start time is kept under the id
start_loading(t) ==
    LET fresh == tiles[t].id = ""
        id == IF fresh THEN IdText(uuid) ELSE tiles[t].id
    IN  /\ tiles[t].phase = "new"
        /\ uuid' = IF fresh THEN uuid + 1 ELSE uuid
        /\ tiles' = [tiles EXCEPT ![t] = [id |-> id, phase |-> "loading"]]
        /\ timingdata' = [timingdata EXCEPT !.starts = With(@, id, now), !.changed = TRUE]
        /\ profile_log' = ProfileOp("start_loading", id, FALSE)
        /\ UNCHANGED <<now, app_vars>>

\* lines 103-117: tileload of a tile element: a tile with a start is counted
\* as complete and its start deleted; for a tile without one the handler
\* throws "finished loading before started?"
stop_loading(t) ==
    LET id == tiles[t].id
    IN  /\ tiles[t].phase = "loading"
        /\ tiles' = [tiles EXCEPT ![t].phase = "loaded"]
        /\ IF id \in DOMAIN timingdata.starts
           THEN /\ timingdata' = [timingdata EXCEPT !.starts = Without(@, {id}),
                                                    !.count = @ + 1,
                                                    !.changed = TRUE]
                /\ profile_log' = ProfileOp("stop_loading", id, FALSE)
           ELSE /\ profile_log' = ProfileOp("stop_loading", id, TRUE)
                /\ UNCHANGED timingdata
        /\ UNCHANGED <<uuid, now, app_vars>>

\* lines 118-125: tileabort of a tile element
abort_load(t) ==
    LET id == tiles[t].id
    IN  /\ tiles[t].phase = "loading"
        /\ tiles' = [tiles EXCEPT ![t].phase = "aborted"]
        /\ timingdata' = IF id \in DOMAIN timingdata.starts
                         THEN [timingdata EXCEPT !.starts = Without(@, {id}),
                                                 !.aborted = @ + 1]
                         ELSE timingdata
        /\ profile_log' = ProfileOp("abort_load", id, FALSE)
        /\ UNCHANGED <<uuid, now, app_vars>>

\* lines 126-142: cleanup(): the starts older than ten seconds are deleted
\* and counted as failed
cleanup(td) ==
    LET deletion == {id \in DOMAIN td.starts : now - td.starts[id] > CleanupSeconds}
    IN  [td EXCEPT !.starts = Without(@, deletion), !.failed = @ + Cardinality(deletion)]

\* lines 143-164 and 166: update(), run by setInterval every second: after a
\* change, changed is reset and, with starts left, cleanup() is called
update ==
    /\ timingdata.changed
    /\ timingdata' = LET td == [timingdata EXCEPT !.changed = FALSE]
                     IN  IF DOMAIN td.starts # {} THEN cleanup(td) ELSE td
    /\ profile_log' = ProfileOp("update", "", FALSE)
    /\ UNCHANGED <<uuid, tiles, now, app_vars>>

\* time passes
TimePasses(d) ==
    /\ now + d <= MaxTime
    /\ now' = now + d
    /\ profile_log' = ProfileOp("", "", FALSE)
    /\ UNCHANGED <<timingdata, uuid, tiles, app_vars>>

\* ------------------------------------------------------ the specification
\* dom_callbacks once the scripts have run: settings_updater (part_001 lines
\* 553-561) has put settings_updated on every setting, then main.js its
\* callbacks of the select_by_vpu settings (lines 21, 28, 640) and
\* updateLegend on the toggle of each geometry (lines 165, 589)
InitCallbacks ==
    [id \in DOMAIN init_values
            \cup {<<"", "select_by_vpu", "toggle">>, <<"", "select_by_vpu", "need_upstream">>} |->
        IF id = <<"", "select_by_vpu", "toggle">>
        THEN <<Callback("select_by_vpu_callback", "", <<"">>),
               Callback("vpu_selection_toggle", "", <<"">>)>>
        ELSE IF id = <<"", "select_by_vpu", "need_upstream">>
        THEN <<Callback("need_upstream_callback", "", <<"">>)>>
        ELSE IF id[2] = "geometries" /\ id[4] = "toggle"
        THEN <<settings_updated, updateLegend>>
        ELSE <<settings_updated>>]

\* the page after its scripts have run: nothing selected, nothing on the map
InitPage ==
    /\ wb_id_dict = EmptyObj
    /\ selected_wb_layer = Null
    /\ upstream_maps = EmptyObj
    /\ registered_layers = EmptyObj
    /\ select_wb_toggle \in BOOLEAN
    /\ vpu_selected = {}
    /\ vpu_wbids = EmptyObj
    /\ map_layers = <<>>
    /\ click_fetches = EmptyBag
    /\ primary_fetches = EmptyBag
    /\ vpu_fetches = EmptyBag
    /\ passes = EmptyBag
    /\ clicks = 0
    /\ update_calls = 0
    /\ vpu_requests = [v \in Vpus |-> 0]
    /\ last_op = Other
    /\ click_log = <<>>
    /\ values = init_values
    /\ dom_callbacks = InitCallbacks
    /\ setting_changes = 0
    /\ trace = NoTrace
    /\ form_requests = EmptyBag
    /\ form_log = NoFormOp
    /\ query = NoQuery
    /\ pass_steps = <<>>
    /\ InitProfiler

\* the handlers of the clicks and of the responses, and the checkbox that
\* switches between selecting basins and selecting VPUs
NextSelect ==
    \/ \E c \in Coords, mouse_on_legend \in BOOLEAN : onMapClick(c[1], c[2], mouse_on_legend)
    \/ \E f \in BagToSet(click_fetches) : ClickResolved(f)
    \/ \E f \in BagToSet(click_fetches) : ClickFailed(f)
    \/ \E v \in Vpus : VpuClickActive(v)
    \/ \E v \in Vpus : VpuClickInactive(v)
    \/ \E f \in BagToSet(vpu_fetches) : VpuResolved(f)
    \/ \E f \in BagToSet(vpu_fetches) : VpuFailed(f)
    \/ \E f \in BagToSet(primary_fetches) : PrimaryResolved(f)
    \/ \E f \in BagToSet(primary_fetches) : PrimaryFailed(f)
    \/ select_by_vpu_callback

\* the reactions of the derived fetches
NextDerived ==
    \/ \E p \in BagToSet(passes), key \in Basins, data \in DerivedResponses :
          DerivedResolved(p, key, data)
    \/ \E p \in BagToSet(passes), key \in Basins : DerivedFailed(p, key)

\* the whole page: the need_upstream setting starts either way and the user
\* may change it at any time
Init == InitPage /\ need_upstream \in BOOLEAN /\ click_budget = MaxClicks /\ setting_budget = 0
        /\ form = InitForm("main.js")

Next == NextSelect \/ NextDerived \/ need_upstream_callback

Spec == Init /\ [][Next]_vars

\* the page with upstream retrieval on throughout
InitUp == InitPage /\ need_upstream = TRUE /\ click_budget = MaxClicks /\ setting_budget = 0
        /\ form = InitForm("main.js")

NextUp == NextSelect \/ NextDerived

SpecUp == InitUp /\ [][NextUp]_vars

\* the page with upstream retrieval on throughout and a backend whose derived
\* responses may hold an entry that is not valid JSON
InitMal == InitPage /\ need_upstream = TRUE /\ click_budget = MaxMalClicks /\ setting_budget = 0
        /\ form = InitForm("main.js")

NextMal ==
    \/ NextSelect
    \/ NextDerived
    \/ \E p \in BagToSet(passes), key \in Basins, data \in DerivedResponses :
          \E bad \in 1..Len(data) : DerivedMalformed(p, key, data, bad)

SpecMal == InitMal /\ [][NextMal]_vars

\* the page with upstream retrieval on throughout and a backend that answers
\* every request: the user clicks at most MaxLiveClicks times, and the event
\* loop runs the reaction of every response that has arrived
InitLive == InitPage /\ need_upstream = TRUE /\ click_budget = MaxLiveClicks /\ setting_budget = 0
        /\ form = InitForm("main.js")

ClickSettles == \E f \in BagToSet(click_fetches) : ClickResolved(f)

VpuSettles == \E f \in BagToSet(vpu_fetches) : VpuResolved(f)

PrimarySettles == \E f \in BagToSet(primary_fetches) : PrimaryResolved(f)

DerivedSettles ==
    \E p \in BagToSet(passes), key \in Basins, data \in DerivedResponses :
        DerivedResolved(p, key, data)

NextLive ==
    \/ \E c \in Coords : onMapClick(c[1], c[2], FALSE)
    \/ \E v \in Vpus : VpuClickActive(v)
    \/ \E v \in Vpus : VpuClickInactive(v)
    \/ select_by_vpu_callback
    \/ ClickSettles
    \/ VpuSettles
    \/ PrimarySettles
    \/ DerivedSettles

\* weak fairness of the reaction to each kind of response: WF_vars(A) with
\* ENABLED <<A>>_vars written out (a reaction can run exactly when a request of
\* its kind is in flight, and running it takes the request out of flight)
ClickSettlesFair == []<>(click_fetches = EmptyBag) \/ []<><<ClickSettles>>_vars

VpuSettlesFair == []<>(vpu_fetches = EmptyBag) \/ []<><<VpuSettles>>_vars

DerivedSettlesFair == []<>(passes = EmptyBag) \/ []<><<DerivedSettles>>_vars

SpecLive ==
    /\ InitLive
    /\ [][NextLive]_vars
    /\ ClickSettlesFair
    /\ VpuSettlesFair
    /\ WF_vars(PrimarySettles)
    /\ DerivedSettlesFair

\* the page with upstream retrieval off throughout: only the selection and
\* the primary layer move
InitSel == InitPage /\ need_upstream = FALSE /\ click_budget = MaxSelClicks /\ setting_budget = 0
        /\ form = InitForm("main.js")

NextSel == NextSelect

SpecSel == InitSel /\ [][NextSel]_vars

\* the settings store on its own: controls change, and the store's functions
\* are called with every kind of key
InitStore == InitPage /\ need_upstream = TRUE /\ click_budget = 0
             /\ setting_budget = MaxSettingChanges /\ form = InitForm("main.js")

NextSettings ==
    \/ \E g \in ChangedGeometries : checkbox_func(<<"", "geometries", g, "toggle">>)
    \/ \E g \in ChangedGeometries, v \in StyleInputs :
          setting_func(<<"", "geometries", g, "style", "color">>, v)

NextStore ==
    \/ NextSettings
    \/ \E key \in QueryKeys : GetSetting(key)
    \/ \E key \in GroupKeys : SetupGroup(key)

SpecStore == InitStore /\ [][NextStore]_vars

\* the page with its settings panel: basins are clicked with upstream
\* retrieval on, and the settings of the layers are changed
InitPanel == InitPage /\ select_wb_toggle = TRUE /\ need_upstream = TRUE
             /\ click_budget = MaxPanelClicks /\ setting_budget = MaxSettingChanges
             /\ form = InitForm("main.js")

NextPanel ==
    \/ \E c \in Coords : onMapClick(c[1], c[2], FALSE)
    \/ \E f \in BagToSet(click_fetches) : ClickResolved(f)
    \/ \E f \in BagToSet(primary_fetches) : PrimaryResolved(f)
    \/ \E f \in BagToSet(primary_fetches) : PrimaryFailed(f)
    \/ NextDerived
    \/ NextSettings

SpecPanel == InitPanel /\ [][NextPanel]_vars

\* the page with the toggles of its layers: basins are clicked with upstream
\* retrieval on and every request is answered, and the user switches the
\* toggles of the primary layer and of a derived layer off and on
InitToggle == InitPage /\ select_wb_toggle = TRUE /\ need_upstream = TRUE
              /\ click_budget = MaxPanelClicks /\ setting_budget = MaxToggleChanges
              /\ form = InitForm("main.js")

NextToggle ==
    \/ \E c \in Coords : onMapClick(c[1], c[2], FALSE)
    \/ \E f \in BagToSet(click_fetches) : ClickResolved(f)
    \/ \E f \in BagToSet(primary_fetches) : PrimaryResolved(f)
    \/ \E p \in BagToSet(passes), key \in Basins, data \in DerivedResponses :
          DerivedResolved(p, key, data)
    \/ \E g \in ChangedGeometries : checkbox_func(<<"", "geometries", g, "toggle">>)

SpecToggle == InitToggle /\ [][NextToggle]_vars

\* the page with its form: a basin is clicked with upstream retrieval off,
\* and the buttons of the form are used
InitFormPage == InitPage /\ select_wb_toggle = TRUE /\ need_upstream = FALSE
                /\ click_budget = MaxFormClicks /\ setting_budget = 0
                /\ form \in {InitForm(script) : script \in Scripts}

NextForm ==
    \/ \E c \in Coords : onMapClick(c[1], c[2], FALSE)
    \/ \E f \in BagToSet(click_fetches) : ClickResolved(f)
    \/ \E f \in BagToSet(primary_fetches) : PrimaryResolved(f)
    \/ \E field \in {"start_time", "end_time"}, value \in TimeInputs : EditTime(field, value)
    \/ subset
    \/ subset_to_file
    \/ forcings
    \/ realization
    \/ \E f \in BagToSet(form_requests) : FormResolved(f)
    \/ \E f \in BagToSet(form_requests) : FormFailed(f)

SpecForm == InitFormPage /\ [][NextForm]_vars

\* the tile layers and the profiler on their own: the tiles are started,
\* load or are aborted at any time, while update runs every second
InitProfile == InitPage /\ select_wb_toggle = TRUE /\ need_upstream = FALSE
               /\ click_budget = 0 /\ setting_budget = 0 /\ form = InitForm("main.js")

NextProfile ==
    \/ \E t \in Tiles : start_loading(t)
    \/ \E t \in Tiles : stop_loading(t)
    \/ \E t \in Tiles : abort_load(t)
    \/ update
    \/ \E d \in TimeSteps : TimePasses(d)

SpecProfile == InitProfile /\ [][NextProfile]_vars

TypeOK == clicks \in 0..click_budget

\* ------------------------------------------------------ the properties
\* no request of any kind is in flight and no pass waits in Promise.all
Quiescent ==
    /\ click_fetches = EmptyBag
    /\ vpu_fetches = EmptyBag
    /\ primary_fetches = EmptyBag
    /\ passes = EmptyBag

LayersOnMap == {map_layers[i] : i \in 1..Len(map_layers)}

PrimaryOnMap == {l \in LayersOnMap : l.name = "selected_wb_layer"}

DerivedOnMap == {l \in LayersOnMap : l.name \in LayerNameSet}

\* the keys a derived family tracks
TrackedKeys(l) == IF l \in DOMAIN upstream_maps THEN DOMAIN upstream_maps[l] ELSE {}

\* the keys a derived family has registered
RegisteredKeys(l) ==
    IF l \in DOMAIN registered_layers /\ registered_layers[l].kind = "object"
    THEN DOMAIN registered_layers[l].entries ELSE {}

\* no family holds an entry for the key
Untracked(k) == \A l \in LayerNameSet : k \notin TrackedKeys(l) /\ k \notin RegisteredKeys(l)

\* the key's entry in the family the fetches are issued from is null
Pending(k) == k \in TrackedKeys(layernames[1]) /\ upstream_maps[layernames[1]][k] = Null

\* the derived fetches of the key that are in flight
InFlight(k) ==
    LET ps == {p \in BagToSet(passes) : k \in p.awaiting}
    IN  BagCardinality([p \in ps |-> passes[p]])

\* C1 (stale-discard): when the derived fetch of a key resolves after the key
\* was deselected and its entries were torn down, no overlay of the key is put
\* on the map and no family holds an entry for the key afterwards.
C1_StaleDiscard ==
    [][\A k \in Basins :
          (last_op' = Op("derived_ok", k) /\ k \notin DOMAIN wb_id_dict /\ Untracked(k))
          => ((\A l \in DerivedOnMap : l.key # k)' /\ Untracked(k)')]_vars

\* C2 (no duplicate fetch): a handler that runs while a key that stays
\* selected has a null entry and a derived fetch in flight issues no further
\* derived fetch for that key.
C2_NoDuplicateFetch ==
    [][\A k \in Basins :
          (Pending(k) /\ InFlight(k) >= 1 /\ k \in DOMAIN wb_id_dict')
          => InFlight(k)' <= InFlight(k)]_vars

\* C3 (derived-set convergence): once nothing is in flight, every derived
\* family tracks exactly the keys of wb_id_dict.
C3_Convergence ==
    Quiescent => \A l \in LayerNameSet : TrackedKeys(l) = DOMAIN wb_id_dict

\* C4 (draw order): once nothing is in flight, a primary overlay on the map
\* is above every derived overlay on the map.
C4_DrawOrder ==
    Quiescent => \A p \in PrimaryOnMap, d \in DerivedOnMap :
                    ZIndex(map_layers, p) > ZIndex(map_layers, d)

\* C4 witness: a quiescent state with the primary overlay and the derived
\* overlays of two basins on the map.
C4_Witness ==
    /\ Quiescent
    /\ PrimaryOnMap # {}
    /\ \A k \in Basins : \E d \in DerivedOnMap : d.key = k

\* C5 (one pass per transition): a handler that completes a transition of the
\* selection (a resolved click, a VPU insertion, a VPU removal) calls
\* update_selected exactly once.
C5_OnePassPerTransition ==
    last_op.op \in {"click_ok", "vpu_on", "vpu_off"} => update_calls = 1

\* C6 (toggle idempotence, as claimed): after two consecutive resolved clicks
\* on the same basin, wb_id_dict is what it was before the two.
C6_ToggleTwiceRestores ==
    (Len(click_log) = 2 /\ click_log[1].id = click_log[2].id)
    => wb_id_dict = click_log[1].before

\* C6 (amended): after two consecutive resolved clicks on the same basin the
\* key set is what it was before the two and every other basin has its
\* coordinate; a basin that was not selected leaves the dictionary as it was,
\* and a basin that was selected now has the coordinate of the second click.
C6_ToggleTwiceAmended ==
    (Len(click_log) = 2 /\ click_log[1].id = click_log[2].id)
    => LET id == click_log[1].id
           before == click_log[1].before
       IN  /\ DOMAIN wb_id_dict = DOMAIN before
           /\ \A k \in DOMAIN before \ {id} : wb_id_dict[k] = before[k]
           /\ id \notin DOMAIN before => wb_id_dict = before
           /\ id \in DOMAIN before => wb_id_dict[id] = click_log[2].at

\* C6 witness: two consecutive clicks on a basin that was selected with
\* another coordinate.
C6_Witness ==
    /\ Len(click_log) = 2
    /\ click_log[1].id = click_log[2].id
    /\ click_log[1].id \in DOMAIN click_log[1].before
    /\ click_log[1].before[click_log[1].id] # click_log[2].at

\* C7: when clicks have brought the selection back to empty, then once
\* nothing is in flight no primary overlay is on the map.
C7_EmptySelectionNoPrimary ==
    (Quiescent /\ Len(click_log) >= 1 /\ DOMAIN wb_id_dict = {}) => PrimaryOnMap = {}

\* C8: a click on an active VPU group removes exactly the ids of the group's
\* cached dict, clears the group's mark and leaves every other entry as it is.
C8_VpuWithdrawExact ==
    [][\A v \in Vpus :
          last_op' = Op("vpu_off", v)
          => /\ v \in vpu_selected /\ v \notin vpu_selected'
             /\ DOMAIN wb_id_dict' = DOMAIN wb_id_dict \ DOMAIN vpu_wbids[v]
             /\ \A k \in DOMAIN wb_id_dict' : wb_id_dict'[k] = wb_id_dict[k]]_vars

\* C8 witness: a group was just withdrawn and a basin outside it is still
\* selected.
C8_Witness ==
    /\ last_op.op = "vpu_off"
    /\ DOMAIN wb_id_dict # {}
    /\ DOMAIN wb_id_dict \cap DOMAIN vpu_wbids[last_op.arg] = {}

\* C9: /get_wbids_from_vpu is requested at most once per VPU group.
C9_VpuFetchedOnce == \A v \in Vpus : vpu_requests[v] <= 1

\* C10: a failed /handle_map_interaction request leaves wb_id_dict as it was,
\* starts no synchronization pass and issues no request.
C10_ClickFailureInert ==
    [][last_op'.op = "click_fail"
       => /\ wb_id_dict' = wb_id_dict
          /\ update_calls' = 0
          /\ BagCardinality(click_fetches') < BagCardinality(click_fetches)
          /\ primary_fetches' = primary_fetches
          /\ vpu_fetches' = vpu_fetches
          /\ passes' = passes]_vars

\* C10 witness: a click has just failed while a basin is selected.
C10_Witness == last_op.op = "click_fail" /\ DOMAIN wb_id_dict # {}

\* C11: the style callback and the visibility callback never throw: in no
\* setting change does a callback bound by setup_style_update throw, whatever
\* handle is registered for its layer (null, or an object with null entries).
C11_CallbacksNeverThrow == ~trace.threw

\* the registrations of callback fn of layer n under id
Bound(fn, n, id) ==
    IF id \in DOMAIN dom_callbacks
    THEN Cardinality({i \in 1..Len(dom_callbacks[id]) :
                        /\ dom_callbacks[id][i].fn = fn
                        /\ dom_callbacks[id][i].layer_name = n})
    ELSE 0

\* C12: for every registered layer name, after any sequence of
\* setup_style_update calls, the style callback is bound exactly once on each
\* setting under the layer's style path and the visibility callback exactly
\* once on the layer's toggle setting.
C12_CallbacksBoundOnce ==
    \A n \in DOMAIN registered_layers :
        /\ \A leaf \in StylePaths(n) : Bound("layer_style_callback", n, leaf) = 1
        /\ Bound("toggle_callback", n, <<"", "geometries", n, "toggle">>) = 1

\* C13: when a setting under the style path of a derived layer has just
\* changed, setStyle has been called with the layer's new style on every
\* overlay its derived layer map holds, for every key, whichever pass the
\* overlay was installed in.
C13_RestyleAllTracked ==
    \A n \in LayerNameSet :
        trace.path \in StylePaths(n)
        => \A k \in TrackedKeys(n) :
              upstream_maps[n][k] # Null
              => [layer |-> upstream_maps[n][k],
                  style |-> get_setting_value(values, <<"", "geometries", n, "style">>)]
                 \in trace.restyled

\* the visibility callbacks bound under any id
ToggleCallbacks ==
    {c \in UNION {{dom_callbacks[id][i] : i \in 1..Len(dom_callbacks[id])} :
                     id \in DOMAIN dom_callbacks} : c.fn = "toggle_callback"}

\* the presence on the map of every handle registered for the callback's
\* layer is what the toggle says
PresenceMatches(c) ==
    LET layer == registered_layers[c.layer_name]
        hs == IF layer = Null THEN {}
              ELSE IF layer.kind = "object" THEN Handles(layer) ELSE {layer}
    IN  \A l \in hs : OnMap(map_layers, l) <=> ToggleVal(values, c.path)

\* C14: the visibility callback is idempotent: in every state, calling it
\* twice leaves the map as calling it once does, and a call when the presence
\* of every registered handle already matches the toggle leaves the map as
\* it is.
C14_ToggleIdempotent ==
    \A c \in ToggleCallbacks :
        LET once  == toggle_callback(values, registered_layers, Run(map_layers), c)
            twice == toggle_callback(values, registered_layers, Run(once.ml), c)
        IN  /\ twice.ml = once.ml
            /\ PresenceMatches(c) => once.ml = map_layers

\* C14 witness: the toggle of merged_geometry has just been switched off and
\* its visibility callback has taken a registered overlay off the map.
C14_Witness ==
    /\ trace.path = <<"", "geometries", "merged_geometry", "toggle">>
    /\ \E i \in 1..Len(trace.calls) : trace.calls[i].fn = "toggle_callback"
    /\ ~values[trace.path]
    /\ \E l \in Handles(registered_layers["merged_geometry"]) : ~OnMap(map_layers, l)

\* the segments of a key without the leading empty one
Segments(key) == IF key[1] = "" THEN SubSeq(key, 2, Len(key)) ELSE key

\* the settings strictly under a key, segment by segment
Under(key) ==
    {s \in DOMAIN values :
        /\ Len(s) - 1 > Len(Segments(key))
        /\ SubSeq(s, 2, Len(Segments(key)) + 1) = Segments(key)}

\* obj is the nested mapping that holds exactly the settings of S, each at
\* the segments of its path from position d on, with its value
RECURSIVE HoldsExactly(_, _, _)
HoldsExactly(obj, S, d) ==
    /\ DOMAIN obj = {s[d] : s \in S}
    /\ \A h \in DOMAIN obj :
          LET Sh == {s \in S : s[d] = h}
          IN  IF \E s \in Sh : Len(s) = d
              THEN \A s \in Sh : Len(s) = d /\ obj[h] = values[s]
              ELSE HoldsExactly(obj[h], Sh, d + 1)

\* C15: get_setting_value(key) returns the stored value when key is a
\* setting's path; a new nested mapping of exactly the settings under key,
\* each at its remaining segments with its current value, when key is a
\* proper segment-wise prefix of settings; and an empty mapping otherwise.
C15_GetSettingValue ==
    query.op = "get_setting_value"
    => IF query.key \in DOMAIN values THEN query.result = values[query.key]
       ELSE IF Under(query.key) # {}
       THEN HoldsExactly(query.result, Under(query.key), Len(Segments(query.key)) + 2)
       ELSE query.result = EmptyObj

\* C15 witness: the style group of selected_wb_layer has been read, by the
\* key without leading dot, after its colour was changed.
C15_Witness ==
    /\ query.op = "get_setting_value"
    /\ query.key = <<"geometries", "selected_wb_layer", "style">>
    /\ values[<<"", "geometries", "selected_wb_layer", "style", "color">>] = "#ff0000"
    /\ query.result["color"] = "#ff0000"

\* C16: a change of the setting at path p overwrites the value of p and of
\* no other setting, then calls the callbacks registered under exactly p,
\* each once per registration and in the order of registration, and no
\* callback registered under another path.
C16_LeafChange ==
    [][setting_changes' = setting_changes + 1
       => LET p == trace'.path
          IN  /\ DOMAIN values' = DOMAIN values
              /\ values'[p] # values[p]
              /\ \A q \in DOMAIN values \ {p} : values'[q] = values[q]
              /\ trace'.calls = IF p \in DOMAIN dom_callbacks THEN dom_callbacks[p] ELSE <<>>]_vars

\* C16 witness: a toggle has just changed and its three callbacks have run:
\* settings_updated, updateLegend and the layer's visibility callback.
C16_Witness ==
    /\ trace.path = <<"", "geometries", "merged_geometry", "toggle">>
    /\ Len(trace.calls) = 3
    /\ trace.calls[1] = settings_updated
    /\ trace.calls[3].fn = "toggle_callback"

\* the callbacks registered under id in cb
Registered(cb, id) == IF id \in DOMAIN cb THEN cb[id] ELSE <<>>

\* C17: setup_group_callback(key, f) appends f once to the callbacks of every
\* setting whose path begins with key (with a dot put before a key that has
\* none), leaves the callbacks of every other id as they were, and the set of
\* settings is the one of page load.
C17_GroupCallback ==
    /\ DOMAIN values = DOMAIN init_values
    /\ query.op = "setup_group_callback"
       => LET key_ == IF query.key[1] = "" /\ Len(query.key) >= 2
                      THEN query.key ELSE <<"">> \o query.key
          IN  \A id \in DOMAIN dom_callbacks \cup DOMAIN query.result \cup DOMAIN values :
                 Registered(dom_callbacks, id) =
                    IF id \in DOMAIN values /\ StartsWith(id, key_)
                    THEN Append(Registered(query.result, id), probe)
                    ELSE Registered(query.result, id)

\* C17 witness: a group callback was registered with a key without leading
\* dot, and is on the colour setting of the group.
C17_Witness ==
    /\ query.op = "setup_group_callback"
    /\ query.key = <<"geometries", "selected_wb_layer", "style">>
    /\ LET cbs == dom_callbacks[<<"", "geometries", "selected_wb_layer", "style", "color">>]
       IN  cbs[Len(cbs)] = probe

\* C18: a change of a setting sends no request of any kind, leaves wb_id_dict,
\* the keys of every derived layer map and the handles they and the registry
\* hold as they were, and afterwards the map shows only overlays that were on
\* it or are registered.
C18_SettingChangeFrame ==
    [][setting_changes' = setting_changes + 1
       => /\ trace'.posts = 0
          /\ click_fetches' = click_fetches
          /\ primary_fetches' = primary_fetches
          /\ vpu_fetches' = vpu_fetches
          /\ form_requests' = form_requests
          /\ passes' = passes
          /\ wb_id_dict' = wb_id_dict
          /\ \A l \in LayerNameSet : TrackedKeys(l)' = TrackedKeys(l)
          /\ upstream_maps' = upstream_maps
          /\ registered_layers' = registered_layers
          /\ selected_wb_layer' = selected_wb_layer
          /\ LayersOnMap' \subseteq
                LayersOnMap \cup Referenced(upstream_maps, registered_layers, <<>>, Null)]_vars

\* C18 witness: a style setting has just changed with overlays registered,
\* and they were restyled.
C18_Witness ==
    /\ trace.path = <<"", "geometries", "merged_geometry", "style", "color">>
    /\ trace.restyled # {}
    /\ passes # EmptyBag

\* C19: a click on the forcings or the realization button while the output
\* path, the start time or the end time is empty sends no request and raises
\* one alert.
C19_NoRequestOnMissingField ==
    [][(/\ form_log'.op \in {"/forcings", "/realization"}
        /\ (form.output_path = "" \/ form.start_time = "" \/ form.end_time = ""))
       => /\ form_requests' = form_requests
          /\ form_log'.sent = 0
          /\ form_log'.alerts = 1]_vars

\* C19 witness: forcings was clicked with an output path but no start time,
\* and raised its alert.
C19_Witness ==
    /\ form_log = FormOp("/forcings", 1, 0)
    /\ form.output_path # ""
    /\ form.start_time = ""
    /\ form.end_time # ""

\* the entry of the key is null in every family
PendingInAll(k) ==
    \A l \in LayerNameSet : k \in TrackedKeys(l) /\ upstream_maps[l][k] = Null

\* C20: when the derived fetch of a key fails, the derived layer maps are
\* left as they are (the overlays the other fetches installed stay tracked,
\* the null entries of the failed key stay null), the same overlays stay on
\* the map and registered, and no request is sent; and a later pass that
\* finds the key selected with its entries null and no fetch in flight sends
\* one fetch for it.
C20_DerivedFailure ==
    [][\A k \in Basins :
          /\ (InFlight(k)' < InFlight(k) /\ last_op'.op # "derived_ok")
             => /\ upstream_maps' = upstream_maps
                /\ PendingInAll(k) => PendingInAll(k)'
                /\ LayersOnMap' = LayersOnMap
                /\ \A l \in LayerNameSet : registered_layers'[l] = registered_layers[l]
                /\ InFlight(k)' = InFlight(k) - 1
                /\ \A j \in Basins \ {k} : InFlight(j)' = InFlight(j)
                /\ primary_fetches' = primary_fetches
                /\ click_fetches' = click_fetches
                /\ vpu_fetches' = vpu_fetches
          /\ (/\ update_calls' = 1
              /\ PendingInAll(k) /\ InFlight(k) = 0
              /\ k \in DOMAIN wb_id_dict')
             => InFlight(k)' = 1 /\ PendingInAll(k)']_vars

\* C20 witness: the derived fetch of a selected basin has failed (its entries
\* are null and nothing is in flight for it) while the overlays of another
\* basin, installed by another fetch, are on the map and tracked.
C20_Witness ==
    \E k \in Basins, j \in Basins :
        /\ k # j
        /\ k \in DOMAIN wb_id_dict
        /\ PendingInAll(k) /\ InFlight(k) = 0
        /\ \A l \in LayerNameSet :
              /\ j \in TrackedKeys(l)
              /\ upstream_maps[l][j] # Null
              /\ OnMap(map_layers, upstream_maps[l][j])

\* C21 (as claimed): a VPU group is marked active if and only if every id of
\* its cached id set is a key of wb_id_dict.
C21_VpuActiveIffPresent ==
    \A v \in Vpus :
        v \in vpu_selected
        <=> (v \in DOMAIN vpu_wbids /\ DOMAIN vpu_wbids[v] \subseteq DOMAIN wb_id_dict)

\* C21 (amended): the handler that marks a group active has inserted every id
\* of the group's set into wb_id_dict, the handler that clears the mark has
\* deleted every id of the cached set from it, and no other handler (a single
\* click among them) changes the mark.
C21_VpuMarkFollowsGroupClicks ==
    [][\A v \in Vpus :
          /\ last_op' = Op("vpu_on", v)
             => /\ v \in vpu_selected'
                /\ DOMAIN vpu_wbids'[v] \subseteq DOMAIN wb_id_dict'
          /\ last_op' = Op("vpu_off", v)
             => /\ v \notin vpu_selected'
                /\ DOMAIN vpu_wbids[v] \cap DOMAIN wb_id_dict' = {}
          /\ last_op' \notin {Op("vpu_on", v), Op("vpu_off", v)}
             => (v \in vpu_selected' <=> v \in vpu_selected)]_vars

\* C21 witness: a single click has just removed an id of a group that stays
\* marked active.
C21_Witness ==
    \E v \in Vpus :
        /\ last_op.op = "click_ok"
        /\ v \in vpu_selected
        /\ last_op.arg \in DOMAIN vpu_wbids[v]
        /\ last_op.arg \notin DOMAIN wb_id_dict

\* C22: within a synchronization pass the teardown step comes before every
\* fetch the pass issues, the primary /get_geojson_from_wbids request included.
C22_TeardownBeforeFetch ==
    \A i, j \in 1..Len(pass_steps) :
        (pass_steps[i] = "teardown" /\ pass_steps[j] \in {"fetch_primary", "fetch_derived"})
        => i < j

\* C23: in the state a handler leaves after the teardown and seed steps of a
\* pass, every derived family tracks exactly the keys of wb_id_dict: the
\* entries of the keys that are no longer selected are deleted and their
\* overlays are off the map, the keys that were not tracked have a null entry,
\* and the entries of the keys that stay are the ones they were.
C23_KeySetsAfterSeed ==
    [][(update_calls' = 1 /\ need_upstream)
       => \A l \in LayerNameSet :
             /\ DOMAIN upstream_maps'[l] = DOMAIN wb_id_dict'
             /\ \A k \in TrackedKeys(l) \ DOMAIN wb_id_dict' :
                   upstream_maps[l][k] # Null => ~OnMap(map_layers', upstream_maps[l][k])
             /\ \A k \in DOMAIN wb_id_dict' \ TrackedKeys(l) : upstream_maps'[l][k] = Null
             /\ \A k \in DOMAIN wb_id_dict' \cap TrackedKeys(l) :
                   upstream_maps'[l][k] = upstream_maps[l][k]]_vars

\* C23 witness: with upstream retrieval on, a second click on a basin has
\* just deselected it, and the pass has run its teardown and seed steps: no
\* family tracks the basin any more and none of its overlays is on the map.
C23_Witness ==
    /\ update_calls = 1
    /\ need_upstream
    /\ last_op.op = "click_ok"
    /\ Len(click_log) = 2
    /\ last_op.arg \in DOMAIN click_log[2].before
    /\ last_op.arg \notin DOMAIN wb_id_dict
    /\ pass_steps = <<"teardown", "seed">>
    /\ LayerNameSet \subseteq DOMAIN upstream_maps
    /\ \A l \in LayerNameSet : TrackedKeys(l) = DOMAIN wb_id_dict
    /\ \A d \in DerivedOnMap : d.key # last_op.arg

\* C24: a handler that starts a pass with a non-empty wb_id_dict issues exactly
\* one /get_geojson_from_wbids request, whose body is the whole wb_id_dict,
\* whether or not the derived entries of its keys are resolved; a handler that
\* starts a pass with an empty wb_id_dict issues none.
C24_OnePrimaryRequest ==
    [][update_calls' = 1
       => primary_fetches' = IF DOMAIN wb_id_dict' # {}
                             THEN primary_fetches (+) SetToBag({[body |-> wb_id_dict']})
                             ELSE primary_fetches]_vars

\* C24 witness: a pass has just started with every key of a non-empty
\* selection already resolved in every family: it has sent the primary
\* request and no derived one.
C24_Witness ==
    /\ update_calls = 1
    /\ DOMAIN wb_id_dict # {}
    /\ need_upstream
    /\ pass_steps = <<"fetch_primary", "teardown", "seed">>
    /\ [body |-> wb_id_dict] \in BagToSet(primary_fetches)
    /\ LayerNameSet \subseteq DOMAIN upstream_maps
    /\ \A k \in DOMAIN wb_id_dict, l \in LayerNameSet : Truthy(upstream_maps, l, k)

\* C28: when a derived response is malformed (one of its entries does not
\* parse), nothing is changed for its key: the key's entries, null before the
\* response, are null in every family afterwards, and no overlay built from
\* the response is on the map.
C28_MalformedInert ==
    [][\A k \in Basins :
          (last_op' = Op("derived_bad", k) /\ PendingInAll(k))
          => /\ PendingInAll(k)'
             /\ \A d \in DerivedOnMap' : d.key = k => d \in DerivedOnMap]_vars

\* C25: derived fetches are issued only by a pass and only for keys whose
\* entry is null, one request per key, carrying that key alone; a pass issues
\* no derived fetch for a key whose entry holds an overlay handle.
C25_FetchOnlyPending ==
    [][\A k \in Basins :
          /\ InFlight(k)' > InFlight(k)
             => /\ update_calls' = 1
                /\ InFlight(k)' = InFlight(k) + 1
                /\ k \in DOMAIN wb_id_dict'
                /\ PendingInAll(k)'
                /\ DerivedBody(upstream_maps', k) = [x \in {k} |-> Null]
          /\ (/\ update_calls' = 1
              /\ \E l \in LayerNameSet : Truthy(upstream_maps', l, k))
             => InFlight(k)' = InFlight(k)]_vars

\* C25 witness: a pass has just sent the derived request of the basin that was
\* added, and none for the other selected basin, whose entries hold overlays.
C25_Witness ==
    \E k \in Basins, j \in Basins :
        /\ update_calls = 1
        /\ pass_steps = <<"fetch_primary", "teardown", "seed", "fetch_derived">>
        /\ {k, j} \subseteq DOMAIN wb_id_dict
        /\ PendingInAll(k) /\ InFlight(k) = 1
        /\ \A l \in LayerNameSet : Truthy(upstream_maps, l, j)
        /\ InFlight(j) = 0

\* C26: a pass performs its final raise (selected_wb_layer.bringToFront) only
\* after every fetch it issued has settled, the primary request included: the
\* handler that issues the primary request of a pass, which cannot have
\* settled before the handler ends, does not go on to the final raise.
C26_RaiseAfterAllSettled ==
    \A i, j \in 1..Len(pass_steps) :
        (pass_steps[i] = "fetch_primary" /\ pass_steps[j] = "bringToFront") => j < i

\* the overlays of a derived family that are on the map
FamilyOnMap(names) == {l \in LayersOnMap : l.name \in names}

\* C27: once nothing is in flight, every flowline overlay (merged_tolines,
\* merged_from_nexus) on the map is above every merged_geometry overlay, and
\* every merged_geometry overlay is above every nexus_circles overlay.
C27_FamilyOrder ==
    Quiescent
    => /\ \A f \in FamilyOnMap({"merged_tolines", "merged_from_nexus"}),
             g \in FamilyOnMap({"merged_geometry"}) :
             ZIndex(map_layers, f) > ZIndex(map_layers, g)
       /\ \A g \in FamilyOnMap({"merged_geometry"}), n \in FamilyOnMap({"nexus_circles"}) :
             ZIndex(map_layers, g) > ZIndex(map_layers, n)

\* every selected key has an overlay handle in every derived family
AllResolved ==
    \A k \in DOMAIN wb_id_dict, l \in LayerNameSet : Truthy(upstream_maps, l, k)

\* C29: when the clicks have stopped and every request is answered, from some
\* point on every key of wb_id_dict has a non-null entry in every derived
\* family; and at any time a selected key whose entry is null has a derived
\* request in flight.
C29_EventuallyResolved ==
    /\ <>[]AllResolved
    /\ [](\A k \in DOMAIN wb_id_dict : Pending(k) => InFlight(k) >= 1)

\* C29 witness: nothing is in flight and both basins are selected, each with
\* an overlay on the map in every derived family.
C29_Witness ==
    /\ Quiescent
    /\ DOMAIN wb_id_dict = Basins
    /\ \A k \in Basins, l \in LayerNameSet :
          Truthy(upstream_maps, l, k) /\ OnMap(map_layers, upstream_maps[l][k])

\* the overlay handles the engine holds: selected_wb_layer and the entries of
\* upstream_maps
Held ==
    ({selected_wb_layer}
     \cup UNION {{upstream_maps[l][k] : k \in DOMAIN upstream_maps[l]} :
                    l \in DOMAIN upstream_maps}) \ {Null}

\* C30: every overlay on the map is a handle held by selected_wb_layer or by
\* an entry of upstream_maps; and a handle that a handler replaces, or whose
\* entry it deletes, is off the map when the handler ends.
C30_OverlayOwnership ==
    /\ [](LayersOnMap \subseteq Held)
    /\ [][\A h \in Held \ Held' : ~OnMap(map_layers', h)]_vars

\* C30 witness: nothing is in flight; the primary overlay of both basins has
\* replaced an earlier one and is the only primary overlay on the map, and
\* the derived overlays on the map are those of the entries of upstream_maps.
C30_Witness ==
    /\ Quiescent
    /\ selected_wb_layer # Null
    /\ selected_wb_layer.ids = Basins
    /\ PrimaryOnMap = {selected_wb_layer}
    /\ Cardinality(DerivedOnMap) = Cardinality(Basins) * Len(layernames)

\* C31 (frame of the selection): wb_id_dict is changed only by the handler of
\* a resolved single click, by a click on an active VPU group and by the
\* handler of a resolved VPU request; every other handler leaves it as it is.
C31_SelectionFrame ==
    [][wb_id_dict' # wb_id_dict => last_op'.op \in {"click_ok", "vpu_on", "vpu_off"}]_vars

\* a derived response has been handled while a VPU group and its basins are
\* selected
C31_Witness ==
    /\ last_op.op = "derived_ok"
    /\ vpu_selected # {}
    /\ DOMAIN wb_id_dict # {}

\* the button of a handler of the form, by the url the handler posts to
ButtonOf(url) == IF url = "/forcings" THEN "forcings-button" ELSE "realization-button"

\* C32 (continuable after the alert): when forcings() or realization() has
\* returned through an alert about a missing field, its button is enabled, so
\* that the handler can be invoked again.
C32_AlertLeavesButtonEnabled ==
    (form_log.op \in {"/forcings", "/realization"} /\ form_log.alerts = 1)
        => ButtonOf(form_log.op) \notin form.disabled

\* C33: once update_selected has registered selected_wb_layer, a change of
\* the setting .geometries.selected_wb_layer.toggle invokes the primary
\* layer's visibility callback, and the registered primary overlay is then on
\* the map exactly when the toggle is on; this whichever of the two
\* registration calls (line 223, line 234) ran first.
C33_PrimaryToggleReached ==
    (/\ trace.path = <<"", "geometries", "selected_wb_layer", "toggle">>
     /\ "selected_wb_layer" \in DOMAIN registered_layers)
    => /\ \E i \in 1..Len(trace.calls) :
             /\ trace.calls[i].fn = "toggle_callback"
             /\ trace.calls[i].layer_name = "selected_wb_layer"
       /\ registered_layers["selected_wb_layer"] # Null
          => (OnMap(map_layers, registered_layers["selected_wb_layer"])
                 <=> values[trace.path])

\* C34 (primary overlay freshness): when single clicks have produced the
\* selection and every request has been answered, the primary overlay on the
\* map is the one built for the keys of the request sent last, which are the
\* keys of wb_id_dict, whatever the order the answers arrived in.
C34_PrimaryFresh ==
    (Quiescent /\ Len(click_log) >= 1 /\ DOMAIN wb_id_dict # {})
    => /\ PrimaryOnMap # {}
       /\ \A l \in PrimaryOnMap : l.ids = DOMAIN wb_id_dict

\* the setting that switches a geometry's overlays on and off
TogglePath(g) == <<"", "geometries", g, "toggle">>

\* C35 (hidden while off): while the toggle setting of a layer is false, no
\* overlay of that layer is on the map, whether it was installed before the
\* toggle was switched off or by a response that arrived afterwards.
C35_HiddenWhileOff ==
    \A g \in Geometries :
        ~values[TogglePath(g)] => \A l \in LayersOnMap : l.name # g

\* C36: switching the toggle of a layer never puts back on the map an
\* overlay the engine removed because of deselection: with wb_id_dict empty,
\* nothing in flight and no primary overlay on the map, a change of a toggle
\* leaves the map without a primary overlay.
C36_ToggleKeepsDeselected ==
    [][(/\ Quiescent
        /\ DOMAIN wb_id_dict = {}
        /\ PrimaryOnMap = {}
        /\ trace'.path \in {TogglePath(g) : g \in Geometries})
       => PrimaryOnMap' = {}]_vars

\* the toggle of derived layer g has been switched off and on again: the
\* last change switched it on and its visibility callback ran
SwitchedBackOn(g) ==
    /\ trace.path = TogglePath(g)
    /\ values[TogglePath(g)]
    /\ setting_changes >= 2
    /\ \E i \in 1..Len(trace.calls) :
          trace.calls[i].fn = "toggle_callback" /\ trace.calls[i].layer_name = g

\* C37: when a derived layer's toggle has been switched off and on again with
\* nothing in flight and a primary overlay on the map, the primary overlay is
\* still above every derived overlay.
C37_DrawOrderAfterToggle ==
    (Quiescent /\ PrimaryOnMap # {} /\ \E g \in LayerNameSet : SwitchedBackOn(g))
    => \A p \in PrimaryOnMap, d \in DerivedOnMap :
          ZIndex(map_layers, p) > ZIndex(map_layers, d)

\* the /handle_map_interaction requests in flight that resolve to basin k
ClicksInFlight(k) ==
    LET fs == {f \in BagToSet(click_fetches) : ServerBasinAt(f.lat, f.lng) = k}
    IN  BagCardinality([f \in fs |-> click_fetches[f]])

\* the key set wb_id_dict has once the clicks in flight have all resolved:
\* a basin is selected when it is selected now and an even number of the
\* clicks resolve to it, or is not and an odd number do
KeysWhenResolved ==
    {k \in Basins : (k \in DOMAIN wb_id_dict) # (ClicksInFlight(k) % 2 = 1)}

\* C38: the key set of wb_id_dict after a set of single clicks in flight at
\* the same time have all resolved does not depend on the order of the
\* responses: whichever click resolves next, the key set reached once all
\* have resolved stays the one determined by the selection and the set of
\* clicks in flight.
C38_ResponseOrderIrrelevant ==
    [][last_op'.op = "click_ok" => KeysWhenResolved' = KeysWhenResolved]_vars

\* one of two clicks on different basins that were in flight together has
\* resolved, the other has not
C38_Witness ==
    /\ last_op.op = "click_ok"
    /\ \E f \in BagToSet(click_fetches) : ServerBasinAt(f.lat, f.lng) # last_op.arg
    /\ DOMAIN wb_id_dict # {}

\* the buttons of subset() and subset_to_file() in the two scripts
SubsetButtons == {"subset-button", "subset2-button", "subset-to-file-button"}

\* the requests in flight that were sent from a button
RequestsOf(button) ==
    LET fs == {f \in BagToSet(form_requests) : f.button = button}
    IN  BagCardinality([f \in fs |-> form_requests[f]])

\* C39: subset() and subset_to_file() disable their button before the
\* request is sent and enable it when the request settles, on success and on
\* failure: at most one request of a button is in flight, and the button is
\* disabled exactly while one is.
C39_SubsetButtonGuard ==
    \A b \in SubsetButtons :
        /\ RequestsOf(b) <= 1
        /\ b \in form.disabled <=> RequestsOf(b) = 1

\* a subset request has been answered and its button enabled again, and the
\* subset button is disabled while its request is in flight
C39_Witness ==
    /\ form.output_path # ""
    /\ RequestsOf("subset-button") = 1
    /\ "subset-button" \in form.disabled
    /\ \E b \in SubsetButtons \ {"subset-button"} :
          RequestsOf(b) = 0 /\ b \notin form.disabled

\* the tiles whose start_loading has run
StartedTiles == {t \in Tiles : tiles[t].phase # "new"}

\* C40: in the tile-load profiler, whatever the order of the starts, loads,
\* aborts and cleanups, stop_loading of a started tile does not raise the
\* "finished loading before started" error, and every started tile is counted
\* once: in starts (incomplete), count (complete), aborted or failed.
C40_ProfilerSound ==
    /\ ~profile_log.threw
    /\ Cardinality(StartedTiles)
          = Cardinality(DOMAIN timingdata.starts) + timingdata.count
            + timingdata.aborted + timingdata.failed

====
